---------------------------- MODULE Spec2Model ----------------------------
(***************************************************************************)
(* A model of confetti's two containers: the array-backed list of          *)
(* src/src/list.c and the singly linked list of src/src/linked_list.c.     *)
(*                                                                         *)
(* Memory is modelled explicitly.  Every list_element_t lives at an        *)
(* address of the element heap; a slot of list->items holds an address,    *)
(* NULL, or WILD (the content of memory that was never initialised).       *)
(* Freeing an address that is not live, or reading through NULL, is        *)
(* undefined behaviour: the call then either ends the process              *)
(* (status = "crashed") or returns as the straightforward build does       *)
(* (status = "undefined"); nothing is said about what follows either.      *)
(***************************************************************************)
EXTENDS Integers, Sequences, FiniteSets, TLC

VARIABLES
    kind,        \* which container the caller program exercises
    lists,       \* list handle -> list_t
    heap,        \* address -> list_element_t / linked_list_element_t cell
    held,        \* addresses of elements handed to the caller (get / pop)
    iterator,    \* the caller's list_iterator_t
    linkedLists, \* linked list handle -> linked_list_t
    nodes,       \* address -> linked_list_node_t cell (with its element)
    linkedIterator, \* the caller's linked_list_iterator_t
    call,        \* the last API call: operation, arguments, result, pre-state
    status       \* "running" | "crashed" | "undefined"

vars == <<kind, lists, heap, held, iterator, linkedLists, nodes,
          linkedIterator, call, status>>

listVars == <<lists, heap, held, iterator>>
linkedVars == <<linkedLists, nodes, linkedIterator>>

---------------------------------------------------------------------------
(* Bounds of the model *)

MaxAddr == 4        \* addresses of the element heap
MaxCap == 4         \* largest capacity the caller lets a list grow to
MaxElems == 3       \* elements alive at once in the structural scenarios
MaxHeld == 1        \* elements the caller holds before releasing one
MaxByte == 2        \* bytes stored are 0..MaxByte
MaxNodes == 4       \* addresses of the node heap
MaxCalls == 9       \* calls of next() the caller makes on one iterator

---------------------------------------------------------------------------
(* Result codes: enum list_result / enum linked_list_result *)

LIST_SUCCESS == 1
LIST_INDEX_OUT_OF_RANGE_ERROR == -1
LIST_ELEMENT_NOT_FOUND_ERROR == -2
LIST_NULL_ERROR == -3
LIST_INVALID_PARAMS_ERROR == -4
LIST_ALLOCATION_FAILURE == -5
DEFAULT_LIST_CAPACITY == 8

LINKED_LIST_SUCCESS == 1
LINKED_LIST_INDEX_OUT_OF_RANGE_ERROR == -1
LINKED_LIST_ELEMENT_NOT_FOUND_ERROR == -2
LINKED_LIST_NULL_ERROR == -3
LINKED_LIST_INVALID_PARAMS_ERROR == -4
LINKED_LIST_ALLOCATION_FAILURE == -5

---------------------------------------------------------------------------
(* Pointers and values *)

NULL == 0                 \* the null pointer
WILD == -1                \* an indeterminate, non-null pointer value
NULLV == << -1 >>         \* element->value == NULL (no data buffer)
SizeofPointer == 8        \* sizeof(void*), the size of a valueless element

Addr == 1..MaxAddr
Bytes == 0..MaxByte
Uninit == {NULL, WILD}    \* what a read of uninitialised memory may yield

DeadCell == [size |-> 0, value |-> NULLV, live |-> FALSE]
EmptyHeap == [a \in Addr |-> DeadCell]

Min(S) == CHOOSE x \in S : \A y \in S : x <= y
Max(S) == CHOOSE x \in S : \A y \in S : x >= y

FreeAddrs(h) == {a \in Addr : ~h[a].live}
\* malloc: the lowest address not in use (freed addresses are reused)
Malloc(h) == Min(FreeAddrs(h))

\* no undefined behaviour so far in a call
NoUB == ""
FirstUB(u1, u2) == IF u1 # NoUB THEN u1 ELSE u2

---------------------------------------------------------------------------
(* list.c: private functions *)

\* malloc fails when the heap is exhausted; *elementOut is then left as it was
list_element_create(h, value, size) ==
    IF FreeAddrs(h) = {}
    THEN [h |-> h, p |-> NULL, result |-> LIST_ALLOCATION_FAILURE]
    ELSE LET a == Malloc(h)
         IN  [h |-> [h EXCEPT ![a] = [size |-> size, value |-> value,
                                      live |-> TRUE]],
              p |-> a, result |-> LIST_SUCCESS]

\* list_element_free(&slot): p is the content of the slot; the result's p is
\* what the slot holds afterwards. The stores (*element)->value = NULL and
\* (*element)->size = 0 come after free(*element): they go to the released
\* record.
list_element_free(h, p) ==
    IF p = NULL
    THEN [h |-> h, p |-> NULL, result |-> LIST_INVALID_PARAMS_ERROR, ub |-> NoUB]
    ELSE IF p = WILD
    THEN [h |-> h, p |-> NULL, result |-> LIST_SUCCESS, ub |-> "invalid_free"]
    ELSE IF ~h[p].live
    THEN [h |-> h, p |-> NULL, result |-> LIST_SUCCESS, ub |-> "double_free"]
    ELSE [h |-> [h EXCEPT ![p] = DeadCell], p |-> NULL,
          result |-> LIST_SUCCESS, ub |-> "write_after_free"]

\* list_element_clone(element, &out)
\* a clone that copies the length but not the bytes
list_element_clone_no_value(h, p) ==
    LET a == Malloc(h)
    IN  [h |-> [h EXCEPT ![a] = [size |-> h[p].size, value |-> NULLV,
                                 live |-> TRUE]],
         p |-> a, result |-> LIST_SUCCESS, ub |-> NoUB]

list_element_clone(h, p) ==
    IF p = NULL
    THEN [h |-> h, p |-> NULL, result |-> LIST_SUCCESS, ub |-> "null_deref"]
    ELSE IF p = WILD
    THEN [h |-> h, p |-> NULL, result |-> LIST_SUCCESS, ub |-> "wild_deref"]
    ELSE LET a == Malloc(h)
         IN  [h |-> [h EXCEPT ![a] = [size |-> h[p].size, value |-> h[p].value,
                                      live |-> TRUE]],
              p |-> a, result |-> LIST_SUCCESS,
              ub |-> IF h[p].live THEN NoUB ELSE "use_after_free"]

\* list_element_set(element, value, size): the buffer is reallocated only
\* when the size differs; the memcpy then writes through element->value,
\* which is NULL in an element that was created without a value
list_element_set(h, p, value, size) ==
    IF p = WILD
    THEN [h |-> h, result |-> LIST_SUCCESS, ub |-> "wild_deref"]
    ELSE IF ~h[p].live
    THEN [h |-> h, result |-> LIST_SUCCESS, ub |-> "use_after_free"]
    ELSE IF size = h[p].size /\ h[p].value = NULLV
    THEN [h |-> h, result |-> LIST_SUCCESS, ub |-> "null_deref"]
    ELSE IF value = NULLV
    THEN [h |-> [h EXCEPT ![p].size = size], result |-> LIST_SUCCESS,
          ub |-> "null_deref"]
    ELSE [h |-> [h EXCEPT ![p].size = size, ![p].value = value],
          result |-> LIST_SUCCESS, ub |-> NoUB]

\* the frees of a loop over the pointers ps, in order
RECURSIVE FreeSeq(_, _)
FreeSeq(h, ps) ==
    IF ps = <<>> THEN [h |-> h, ub |-> NoUB]
    ELSE LET f == list_element_free(h, Head(ps))
             rest == FreeSeq(f.h, Tail(ps))
         IN  [h |-> rest.h, ub |-> FirstUB(f.ub, rest.ub)]

\* u: the content of the one slot the growth loop leaves uninitialised
list_realloc_capacity(l, h, capacity, u) ==
    IF capacity < 1
    THEN [l |-> l, h |-> h, result |-> LIST_INVALID_PARAMS_ERROR, ub |-> NoUB]
    ELSE IF capacity = l.capacity
    THEN [l |-> l, h |-> h, result |-> LIST_SUCCESS, ub |-> NoUB]
    ELSE
      LET oldCapacity == l.capacity
          fr == IF capacity < oldCapacity
                THEN FreeSeq(h, [k \in 1..(oldCapacity - capacity) |->
                                    l.items[oldCapacity - k]])
                ELSE [h |-> h, ub |-> NoUB]
          newSize == IF capacity < oldCapacity /\ l.size > capacity
                     THEN capacity ELSE l.size
          newItems == [i \in 0..(capacity - 1) |->
                         IF i < oldCapacity THEN l.items[i]
                         ELSE IF i < capacity - 1 THEN NULL
                         ELSE u]
      IN  [l |-> [l EXCEPT !.items = newItems, !.size = newSize,
                           !.capacity = capacity],
           h |-> fr.h, result |-> LIST_SUCCESS, ub |-> fr.ub]

\* memcmp over the first n bytes: the difference of the first bytes that
\* differ, 0 when there are none
RECURSIVE MemcmpFrom(_, _, _, _)
MemcmpFrom(data1, data2, k, n) ==
    IF k > n \/ k > Len(data1) \/ k > Len(data2) THEN 0
    ELSE IF data1[k] # data2[k] THEN data1[k] - data2[k]
    ELSE MemcmpFrom(data1, data2, k + 1, n)

memcmp(data1, data2, n) == MemcmpFrom(data1, data2, 1, n)

default_equals(data1, data2, size) ==
    IF data1 = NULLV /\ data2 # NULLV THEN -1
    ELSE IF data1 # NULLV /\ data2 = NULLV THEN 1
    ELSE IF data1 = NULLV /\ data2 = NULLV THEN 0
    ELSE memcmp(data1, data2, size)

\* equality functions a caller passes to list_create: they return a value
\* for every pair, the same whichever way round the pair is given
CustomEqualityFunctions == {"custom_less", "custom_greater"}
CustomEqualityResult(f) == IF f = "custom_less" THEN -1 ELSE 1

\* list->equalityFunction(data1, data2, size)
equalityFunction(l, data1, data2, size) ==
    IF l.equalityFunction \in CustomEqualityFunctions
    THEN CustomEqualityResult(l.equalityFunction)
    ELSE default_equals(data1, data2, size)

\* list_swap without its temporary: the first slot is lost
list_swap_no_temp(l, index1, index2) ==
    IF index1 >= l.size \/ index1 < 0 THEN l
    ELSE IF index2 >= l.size \/ index2 < 0 THEN l
    ELSE IF index1 = index2 THEN l
    ELSE [l EXCEPT !.items = [@ EXCEPT ![index1] = l.items[index2]]]

list_swap(l, index1, index2) ==
    IF index1 >= l.size \/ index1 < 0 THEN l
    ELSE IF index2 >= l.size \/ index2 < 0 THEN l
    ELSE IF index1 = index2 THEN l
    ELSE [l EXCEPT !.items = [@ EXCEPT ![index1] = l.items[index2],
                                       ![index2] = l.items[index1]]]

\* the comparison of the elements in slots a and b, as partition makes it
CompareSlots(l, h, a, b) ==
    equalityFunction(l, h[l.items[a]].value, h[l.items[b]].value,
                     h[l.items[a]].size)

\* partition's first step for a range of three or more
MedianOfThree(l, h, low, high, ascending) ==
    LET mid == low + (high - low) \div 2
        Wrong(c) == IF ascending THEN c > 0 ELSE c < 0
        l1 == IF Wrong(CompareSlots(l, h, low, mid))
              THEN list_swap(l, low, mid) ELSE l
        l2 == IF Wrong(CompareSlots(l1, h, low, high))
              THEN list_swap(l1, low, high) ELSE l1
        l3 == IF Wrong(CompareSlots(l2, h, mid, high))
              THEN list_swap(l2, mid, high) ELSE l2
    IN  list_swap(l3, mid, high - 1)

\* partition's loop from j on; yields the list and i
RECURSIVE PartitionLoop(_, _, _, _, _, _, _, _)
PartitionLoop(l, h, i, j, high, pivot_value, pivot_size, ascending) ==
    IF j > high - 2 THEN [l |-> l, i |-> i]
    ELSE LET comparison_result ==
                 equalityFunction(l, h[l.items[j]].value, pivot_value, pivot_size)
             condition == IF ascending THEN comparison_result <= 0
                          ELSE comparison_result >= 0
         IN  IF condition
             THEN PartitionLoop(list_swap(l, i + 1, j), h, i + 1, j + 1, high,
                                pivot_value, pivot_size, ascending)
             ELSE PartitionLoop(l, h, i, j + 1, high, pivot_value, pivot_size,
                                ascending)

partition(l, h, low, high, ascending) ==
    LET l0 == IF high - low + 1 >= 3
              THEN MedianOfThree(l, h, low, high, ascending) ELSE l
        pivot_element == h[l0.items[high - 1]]
        loop == PartitionLoop(l0, h, low - 1, low, high, pivot_element.value,
                              pivot_element.size, ascending)
    IN  [l |-> list_swap(loop.l, loop.i + 1, high - 1), p |-> loop.i + 1]

RECURSIVE quicksort(_, _, _, _, _)
quicksort(l, h, low, high, ascending) ==
    IF low < high
    THEN LET part == partition(l, h, low, high, ascending)
             left == quicksort(part.l, h, low, part.p - 1, ascending)
         IN  quicksort(left, h, part.p + 1, high, ascending)
    ELSE l

default_sort(l, h, ascending) ==
    [l |-> quicksort(l, h, 0, l.size - 1, ascending), h |-> h,
     result |-> LIST_SUCCESS, ub |-> NoUB]

---------------------------------------------------------------------------
(* list.c: public functions *)

list_create(capacity) ==
    LET c == IF capacity < 1 THEN DEFAULT_LIST_CAPACITY ELSE capacity
    IN  [size |-> 0, capacity |-> c, items |-> [i \in 0..(c - 1) |-> NULL],
         equalityFunction |-> "default_equals",
         sortingFunction |-> "default_sort"]

list_resize(l, h, capacity, u) ==
    IF capacity < 1
    THEN [l |-> l, h |-> h, result |-> LIST_INVALID_PARAMS_ERROR, ub |-> NoUB]
    ELSE IF capacity = l.capacity
    THEN [l |-> l, h |-> h, result |-> LIST_SUCCESS, ub |-> NoUB]
    ELSE list_realloc_capacity(l, h, capacity, u)

\* the list after the growth step shared by prepend, append and insert
\* growth by one slot instead of doubling
Grown_by_one(l, h, u) ==
    IF l.size = l.capacity
    THEN list_realloc_capacity(l, h, l.capacity + 1, u)
    ELSE [l |-> l, h |-> h, result |-> LIST_SUCCESS, ub |-> NoUB]

Grown(l, h, u) ==
    IF l.size = l.capacity
    THEN list_realloc_capacity(l, h, l.capacity * 2, u)
    ELSE [l |-> l, h |-> h, result |-> LIST_SUCCESS, ub |-> NoUB]

list_prepend(l, h, value, size, u) ==
    LET g == Grown(l, h, u)
    IN  IF g.result # LIST_SUCCESS THEN g
        ELSE LET shifted == [i \in DOMAIN g.l.items |->
                                IF 1 <= i /\ i <= g.l.size THEN g.l.items[i - 1]
                                ELSE g.l.items[i]]
                 c == list_element_create(g.h, value, size)
             IN  IF c.result # LIST_SUCCESS
                 THEN [l |-> [g.l EXCEPT !.items = shifted], h |-> c.h,
                       result |-> c.result, ub |-> g.ub]
                 ELSE [l |-> [g.l EXCEPT !.items = [shifted EXCEPT ![0] = c.p],
                                         !.size = g.l.size + 1],
                       h |-> c.h, result |-> LIST_SUCCESS, ub |-> g.ub]

list_append(l, h, value, size, u) ==
    LET g == Grown(l, h, u)
    IN  IF g.result # LIST_SUCCESS THEN g
        ELSE LET c == list_element_create(g.h, value, size)
                 inside == g.l.size \in DOMAIN g.l.items
             IN  IF c.result # LIST_SUCCESS
                 THEN [l |-> g.l, h |-> c.h, result |-> c.result, ub |-> g.ub]
                 ELSE [l |-> [g.l EXCEPT
                                 !.items = IF inside
                                           THEN [@ EXCEPT ![g.l.size] = c.p]
                                           ELSE @,
                                 !.size = g.l.size + 1],
                       h |-> c.h, result |-> LIST_SUCCESS,
                       ub |-> FirstUB(g.ub, IF inside THEN NoUB
                                            ELSE "out_of_bounds")]

\* list_insert without its shift: the new element takes the place of the one
\* at index
list_insert_no_shift(l, h, index, value, size, u) ==
    IF index > l.size \/ index < 0
    THEN [l |-> l, h |-> h, result |-> LIST_INDEX_OUT_OF_RANGE_ERROR, ub |-> NoUB]
    ELSE
      LET g == Grown(l, h, u)
      IN  IF g.result # LIST_SUCCESS THEN g
          ELSE LET c == list_element_create(g.h, value, size)
               IN  [l |-> [g.l EXCEPT !.items[index] = c.p,
                                      !.size = g.l.size + 1],
                    h |-> c.h, result |-> LIST_SUCCESS, ub |-> g.ub]

list_insert(l, h, index, value, size, u) ==
    IF index > l.size \/ index < 0
    THEN [l |-> l, h |-> h, result |-> LIST_INDEX_OUT_OF_RANGE_ERROR, ub |-> NoUB]
    ELSE
      LET g == Grown(l, h, u)
      IN  IF g.result # LIST_SUCCESS THEN g
          ELSE LET shifted == [i \in DOMAIN g.l.items |->
                                  IF index + 1 <= i /\ i <= g.l.size
                                  THEN g.l.items[i - 1] ELSE g.l.items[i]]
                   c == list_element_create(g.h, value, size)
                   \* createResult is not looked at: on failure the slot keeps
                   \* what the shift left in it
                   items == IF c.result = LIST_SUCCESS
                            THEN [shifted EXCEPT ![index] = c.p]
                            ELSE shifted
               IN  [l |-> [g.l EXCEPT !.items = items, !.size = g.l.size + 1],
                    h |-> c.h, result |-> LIST_SUCCESS, ub |-> g.ub]

\* items after the left shift of remove / pop; the slot at index is NULL when
\* the shift starts
ShiftLeft(l, index) ==
    [i \in DOMAIN l.items |->
        IF index <= i /\ i <= l.size - 2 THEN l.items[i + 1]
        ELSE IF i = index THEN NULL
        ELSE l.items[i]]

\* list_remove with its index checked against size instead of capacity
list_remove_checks_size(l, h, index) ==
    IF index >= l.size \/ index < 0
    THEN [l |-> l, h |-> h, result |-> LIST_INDEX_OUT_OF_RANGE_ERROR,
          ub |-> NoUB, out |-> NULL]
    ELSE
      LET f == list_element_free(h, l.items[index])
      IN  IF f.result # LIST_SUCCESS
          THEN [l |-> l, h |-> h, result |-> f.result, ub |-> f.ub, out |-> NULL]
          ELSE [l |-> [l EXCEPT !.items = ShiftLeft(l, index),
                                !.size = l.size - 1],
                h |-> f.h, result |-> LIST_SUCCESS, ub |-> f.ub, out |-> NULL]

list_remove(l, h, index) ==
    IF index >= l.capacity \/ index < 0
    THEN [l |-> l, h |-> h, result |-> LIST_INDEX_OUT_OF_RANGE_ERROR,
          ub |-> NoUB, out |-> NULL]
    ELSE
      LET f == list_element_free(h, l.items[index])
      IN  IF f.result # LIST_SUCCESS
          THEN [l |-> l, h |-> h, result |-> f.result, ub |-> f.ub, out |-> NULL]
          ELSE [l |-> [l EXCEPT !.items = ShiftLeft(l, index),
                                !.size = l.size - 1],
                h |-> f.h, result |-> LIST_SUCCESS, ub |-> f.ub, out |-> NULL]

list_pop(l, h, index) ==
    IF index >= l.capacity \/ index < 0
    THEN [l |-> l, h |-> h, result |-> LIST_INDEX_OUT_OF_RANGE_ERROR,
          ub |-> NoUB, out |-> NULL]
    ELSE
      LET c == list_element_clone(h, l.items[index])
          f == list_element_free(c.h, l.items[index])
      IN  IF c.ub \in {"null_deref", "wild_deref"}
          THEN [l |-> l, h |-> h, result |-> LIST_SUCCESS, ub |-> c.ub,
                out |-> NULL]
          ELSE [l |-> [l EXCEPT !.items = ShiftLeft(l, index),
                                !.size = l.size - 1],
                h |-> f.h, result |-> LIST_SUCCESS, ub |-> FirstUB(c.ub, f.ub),
                out |-> c.p]

list_clear(l, h) ==
    LET fr == FreeSeq(h, [k \in 1..l.size |-> l.items[k - 1]])
    IN  [l |-> [l EXCEPT !.items = [i \in DOMAIN l.items |->
                                       IF i < l.size THEN NULL ELSE l.items[i]],
                         !.size = 0],
         h |-> fr.h, result |-> LIST_SUCCESS, ub |-> fr.ub]

\* every slot the sort reads holds a live element
Sortable(l, h) ==
    \A i \in 0..(l.size - 1) : l.items[i] \in Addr /\ h[l.items[i]].live

\* sorting functions a caller passes to list_create or linked_list_create:
\* each leaves the container alone and answers with a code of its own, one
\* of them with a number that is no result code
CustomSortingFunctions == {"custom_succeeds", "custom_refuses", "custom_code"}
CustomSortResult(f) ==
    CASE f = "custom_succeeds" -> LIST_SUCCESS
      [] f = "custom_refuses" -> LIST_INVALID_PARAMS_ERROR
      [] OTHER -> 7

\* the call list->sortingFunction(list, ascending); a pointer that was
\* never assigned is called as it is
sortingFunction(l, h, ascending) ==
    IF l.sortingFunction \in CustomSortingFunctions
    THEN [l |-> l, h |-> h, result |-> CustomSortResult(l.sortingFunction),
          ub |-> NoUB]
    ELSE IF l.sortingFunction # "default_sort"
    THEN [l |-> l, h |-> h, result |-> LIST_SUCCESS, ub |-> "wild_deref"]
    ELSE IF ~Sortable(l, h)
    THEN [l |-> l, h |-> h, result |-> LIST_SUCCESS, ub |-> "null_deref"]
    ELSE default_sort(l, h, ascending)

\* list_sort answering Success whatever the sorting function returned
list_sort_success(l, h, ascending) ==
    IF l.size = 0 \/ l.size = 1
    THEN [l |-> l, h |-> h, result |-> LIST_SUCCESS, ub |-> NoUB,
          invoked |-> <<>>]
    ELSE [sortingFunction(l, h, ascending) EXCEPT !.result = LIST_SUCCESS]
            @@ [invoked |-> <<<<l.sortingFunction, ascending>>>>]

\* invoked: the calls of the sorting function, each with its direction
list_sort(l, h, ascending) ==
    IF l.size = 0 \/ l.size = 1
    THEN [l |-> l, h |-> h, result |-> LIST_SUCCESS, ub |-> NoUB,
          invoked |-> <<>>]
    ELSE sortingFunction(l, h, ascending)
            @@ [invoked |-> <<<<l.sortingFunction, ascending>>>>]

\* the clones list_join makes of the pointers ps, in order
RECURSIVE CloneSeq(_, _)
CloneSeq(h, ps) ==
    IF ps = <<>> THEN [h |-> h, ps |-> <<>>, ub |-> NoUB]
    ELSE LET c == list_element_clone(h, Head(ps))
             rest == CloneSeq(c.h, Tail(ps))
         IN  [h |-> rest.h, ps |-> <<c.p>> \o rest.ps,
              ub |-> FirstUB(c.ub, rest.ub)]

\* the pointers in the slots below size, in slot order
RECURSIVE Slots(_, _)
Slots(l, n) ==
    IF n <= 0 THEN <<>> ELSE Append(Slots(l, n - 1), l.items[n - 1])

list_join(list1, list2, h) ==
    LET joinList == list_create(list1.size + list2.size)
        clones == CloneSeq(h, Slots(list1, list1.size)
                                 \o Slots(list2, list2.size))
    IN  [l |-> [joinList EXCEPT
                   !.items = [i \in 0..(joinList.capacity - 1) |->
                                 IF i < Len(clones.ps) THEN clones.ps[i + 1]
                                 ELSE joinList.items[i]],
                   !.size = joinList.capacity],
         h |-> clones.h, result |-> LIST_SUCCESS, ub |-> clones.ub]

\* the loop of list_find_last from slot i on: an element of another size is
\* skipped, a later match replaces an earlier one
\* compared lists the slots whose element the equality function was called
\* on, in the order of the calls
RECURSIVE FindLastLoop(_, _, _, _, _, _, _)
FindLastLoop(l, h, i, value, size, index, compared) ==
    IF i >= l.size THEN [index |-> index, compared |-> compared]
    ELSE LET element == h[l.items[i]]
         IN  IF element.size # size
             THEN FindLastLoop(l, h, i + 1, value, size, index, compared)
             ELSE IF equalityFunction(l, element.value, value, element.size) = 0
             THEN FindLastLoop(l, h, i + 1, value, size, i,
                               Append(compared, i))
             ELSE FindLastLoop(l, h, i + 1, value, size, index,
                               Append(compared, i))

list_find_last(l, h, startIndex, value, size) ==
    IF startIndex >= l.size \/ startIndex < 0
    THEN [index |-> -1, result |-> LIST_INDEX_OUT_OF_RANGE_ERROR, ub |-> NoUB,
          compared |-> <<>>]
    ELSE IF size <= 0
    THEN [index |-> -1, result |-> LIST_INVALID_PARAMS_ERROR, ub |-> NoUB,
          compared |-> <<>>]
    ELSE FindLastLoop(l, h, startIndex, value, size, -1, <<>>)
            @@ [result |-> IF FindLastLoop(l, h, startIndex, value, size, -1,
                                           <<>>).index # -1
                           THEN LIST_SUCCESS
                           ELSE LIST_ELEMENT_NOT_FOUND_ERROR,
                ub |-> NoUB]

\* the loop of list_includes and of list_find_first without the comparison
\* of the sizes
RECURSIVE FindFirstLoop_any_size(_, _, _, _, _, _)
FindFirstLoop_any_size(l, h, i, value, size, compared) ==
    IF i >= l.size THEN [index |-> -1, compared |-> compared]
    ELSE LET element == h[l.items[i]]
         IN  IF equalityFunction(l, element.value, value, size) = 0
             THEN [index |-> i, compared |-> Append(compared, i)]
             ELSE FindFirstLoop_any_size(l, h, i + 1, value, size,
                                         Append(compared, i))

\* the loop of list_includes and of list_find_first from slot i on: it
\* returns at the first element of the query's size that the equality
\* function finds equal
RECURSIVE FindFirstLoop(_, _, _, _, _, _)
FindFirstLoop(l, h, i, value, size, compared) ==
    IF i >= l.size THEN [index |-> -1, compared |-> compared]
    ELSE LET element == h[l.items[i]]
         IN  IF element.size # size
             THEN FindFirstLoop(l, h, i + 1, value, size, compared)
             ELSE IF equalityFunction(l, element.value, value, element.size) = 0
             THEN [index |-> i, compared |-> Append(compared, i)]
             ELSE FindFirstLoop(l, h, i + 1, value, size, Append(compared, i))

\* list_includes writes no index: index is the slot it returned at
list_includes(l, h, value, size) ==
    FindFirstLoop(l, h, 0, value, size, <<>>)
        @@ [result |-> IF FindFirstLoop(l, h, 0, value, size, <<>>).index # -1
                       THEN LIST_SUCCESS
                       ELSE LIST_ELEMENT_NOT_FOUND_ERROR,
            ub |-> NoUB]

list_find_first(l, h, startIndex, value, size) ==
    IF startIndex >= l.size \/ startIndex < 0
    THEN [index |-> -1, result |-> LIST_INVALID_PARAMS_ERROR, ub |-> NoUB,
          compared |-> <<>>]
    ELSE IF size <= 0
    THEN [index |-> -1, result |-> LIST_INVALID_PARAMS_ERROR, ub |-> NoUB,
          compared |-> <<>>]
    ELSE FindFirstLoop(l, h, IF startIndex > 0 THEN startIndex ELSE 0, value,
                       size, <<>>)
            @@ [result |-> IF FindFirstLoop(l, h, startIndex, value, size,
                                            <<>>).index # -1
                           THEN LIST_SUCCESS
                           ELSE LIST_ELEMENT_NOT_FOUND_ERROR,
                ub |-> NoUB]

\* the loop of list_fill from slot i on: it stops at the first element that
\* cannot be created
RECURSIVE FillLoop(_, _, _, _, _)
FillLoop(l, h, i, value, size) ==
    IF i >= l.capacity
    THEN [l |-> l, h |-> h, result |-> LIST_SUCCESS]
    ELSE LET c == list_element_create(h, value, size)
         IN  IF c.result # LIST_SUCCESS
             THEN [l |-> l, h |-> c.h, result |-> c.result]
             ELSE FillLoop([l EXCEPT !.items[i] = c.p], c.h, i + 1, value,
                           size)

\* list_fill without its last assignment to size
list_fill_keeps_size(l, h, value, size) ==
    LET f == FillLoop(l, h, l.size, value, size)
    IN  [l |-> f.l, h |-> f.h, result |-> f.result, ub |-> NoUB]

list_fill(l, h, value, size) ==
    LET f == FillLoop(l, h, l.size, value, size)
    IN  IF f.result # LIST_SUCCESS
        THEN [l |-> f.l, h |-> f.h, result |-> f.result, ub |-> NoUB]
        ELSE [l |-> [f.l EXCEPT !.size = f.l.capacity], h |-> f.h,
              result |-> LIST_SUCCESS, ub |-> NoUB]

\* the loop of list_reverse: start and end are the slots the two pointers
\* are at, i counts up to mid
RECURSIVE ListReverseLoop(_, _, _, _, _)
ListReverseLoop(items, start, end, i, mid) ==
    IF i >= mid THEN items
    ELSE ListReverseLoop([items EXCEPT ![start] = items[end],
                                       ![end] = items[start]],
                         start + 1, end - 1, i + 1, mid)

\* list_reverse with its end pointer on the last slot of the capacity
list_reverse_capacity(l, h) ==
    [l |-> [l EXCEPT !.items = ListReverseLoop(l.items, 0, l.capacity - 1, 0,
                                               l.capacity \div 2)],
     h |-> h, result |-> LIST_SUCCESS, ub |-> NoUB]

list_reverse(l, h) ==
    [l |-> [l EXCEPT !.items = ListReverseLoop(l.items, 0, l.size - 1, 0,
                                               l.size \div 2)],
     h |-> h, result |-> LIST_SUCCESS, ub |-> NoUB]

list_get(l, h, index) ==
    IF index >= l.size \/ index < 0
    THEN [l |-> l, h |-> h, result |-> LIST_INDEX_OUT_OF_RANGE_ERROR,
          ub |-> NoUB, out |-> NULL]
    ELSE LET c == list_element_clone(h, l.items[index])
         IN  [l |-> l, h |-> c.h, result |-> c.result, ub |-> c.ub,
              out |-> c.p]

list_set(l, h, index, value, size) ==
    IF index >= l.size \/ index < 0
    THEN [l |-> l, h |-> h, result |-> LIST_INDEX_OUT_OF_RANGE_ERROR,
          ub |-> NoUB]
    ELSE IF size = 0
    THEN [l |-> l, h |-> h, result |-> LIST_INVALID_PARAMS_ERROR, ub |-> NoUB]
    ELSE IF l.items[index] = NULL
    THEN LET c == list_element_create(h, value, size)
         IN  IF c.result = LIST_SUCCESS
             THEN [l |-> [l EXCEPT !.items[index] = c.p], h |-> c.h,
                   result |-> LIST_SUCCESS, ub |-> NoUB]
             ELSE [l |-> l, h |-> h, result |-> c.result, ub |-> NoUB]
    ELSE LET r == list_element_set(h, l.items[index], value, size)
         IN  [l |-> l, h |-> r.h, result |-> r.result, ub |-> r.ub]

\* the clone's function pointers are never assigned; the result of
\* list_element_clone is not looked at
list_clone(list, h) ==
    LET clones == CloneSeq(h, Slots(list, list.size))
    IN  [l |-> [size |-> list.size, capacity |-> list.capacity,
                items |-> [i \in 0..(list.capacity - 1) |->
                              IF i < list.size THEN clones.ps[i + 1]
                              ELSE NULL],
                equalityFunction |-> "indeterminate",
                sortingFunction |-> "indeterminate"],
         h |-> clones.h, result |-> LIST_SUCCESS, ub |-> clones.ub]

list_iterator_create(hd) ==
    [list |-> hd, index |-> -1, element |-> NULL, made |-> TRUE]

\* list_iterator_next with its end test one element late
list_iterator_next_late(it, l) ==
    IF it.index = -1
    THEN [it |-> [it EXCEPT !.index = 0, !.element = l.items[0]],
          result |-> LIST_SUCCESS]
    ELSE IF it.index >= l.size
    THEN [it |-> [it EXCEPT !.index = -1, !.element = NULL],
          result |-> LIST_INDEX_OUT_OF_RANGE_ERROR]
    ELSE [it |-> [it EXCEPT !.index = it.index + 1,
                            !.element = IF it.index + 1 < l.capacity
                                        THEN l.items[it.index + 1] ELSE WILD],
          result |-> LIST_SUCCESS]

list_iterator_next(it, l) ==
    IF it.index = -1
    THEN [it |-> [it EXCEPT !.index = 0, !.element = l.items[0]],
          result |-> LIST_SUCCESS]
    ELSE IF it.index + 1 >= l.size
    THEN [it |-> [it EXCEPT !.index = -1, !.element = NULL],
          result |-> LIST_INDEX_OUT_OF_RANGE_ERROR]
    ELSE [it |-> [it EXCEPT !.index = it.index + 1,
                            !.element = l.items[it.index + 1]],
          result |-> LIST_SUCCESS]

list_iterator_rewind(it) ==
    [it |-> [it EXCEPT !.index = -1, !.element = NULL],
     result |-> LIST_SUCCESS]

---------------------------------------------------------------------------
(* linked_list.c: private functions *)

NodeAddr == 1..MaxNodes
\* a node cell and the element it points to: live / elive say whether the
\* node / its element are allocated
DeadNode == [next |-> NULL, size |-> 0, value |-> NULLV,
             live |-> FALSE, elive |-> FALSE]
EmptyNodes == [a \in NodeAddr |-> DeadNode]

FreeNodes(nd) == {a \in NodeAddr : ~nd[a].live}
MallocNode(nd) == Min(FreeNodes(nd))

linked_list_node_create(nd, value, size, next) ==
    IF FreeNodes(nd) = {}
    THEN [nd |-> nd, p |-> NULL, result |-> LINKED_LIST_ALLOCATION_FAILURE]
    ELSE LET a == MallocNode(nd)
         IN  [nd |-> [nd EXCEPT ![a] = [next |-> next, size |-> size,
                                        value |-> value, live |-> TRUE,
                                        elive |-> TRUE]],
              p |-> a, result |-> LINKED_LIST_SUCCESS]

\* linked_list_node_free(&node): the element, then the node
linked_list_node_free(nd, p) ==
    IF p = NULL
    THEN [nd |-> nd, result |-> LINKED_LIST_INVALID_PARAMS_ERROR, ub |-> NoUB]
    ELSE IF ~nd[p].live
    THEN [nd |-> nd, result |-> LINKED_LIST_SUCCESS, ub |-> "use_after_free"]
    ELSE [nd |-> [nd EXCEPT ![p] = DeadNode],
          result |-> LINKED_LIST_SUCCESS, ub |-> NoUB]

\* linked_list_node_clone: a new node with a copy of the element, next = NULL
linked_list_node_clone(nd, p) ==
    LET a == MallocNode(nd)
    IN  [nd |-> [nd EXCEPT ![a] = [next |-> NULL, size |-> nd[p].size,
                                   value |-> nd[p].value, live |-> TRUE,
                                   elive |-> TRUE]],
         p |-> a, result |-> LINKED_LIST_SUCCESS]

\* linked_list_element_clone(node->element, &elementClone): the clone is the
\* caller's, it lives outside the chain
linked_list_element_clone(h, nd, node) ==
    IF FreeAddrs(h) = {}
    THEN [h |-> h, p |-> NULL, result |-> LINKED_LIST_ALLOCATION_FAILURE]
    ELSE LET a == Malloc(h)
         IN  [h |-> [h EXCEPT ![a] = [size |-> nd[node].size,
                                      value |-> nd[node].value,
                                      live |-> TRUE]],
              p |-> a, result |-> LINKED_LIST_SUCCESS]

\* linked_list_element_free(&element) of an element the caller was handed:
\* size and value are cleared before free(*element)
linked_list_element_free(h, p) ==
    IF p = NULL
    THEN [h |-> h, result |-> LINKED_LIST_INVALID_PARAMS_ERROR, ub |-> NoUB]
    ELSE IF ~h[p].live
    THEN [h |-> h, result |-> LINKED_LIST_SUCCESS, ub |-> "double_free"]
    ELSE [h |-> [h EXCEPT ![p] = DeadCell],
          result |-> LINKED_LIST_SUCCESS, ub |-> NoUB]

\* linked_list_element_set(node->element, value, size): as list_element_set
linked_list_element_set(nd, node, value, size) ==
    IF size = nd[node].size /\ nd[node].value = NULLV
    THEN [nd |-> nd, result |-> LINKED_LIST_SUCCESS, ub |-> "null_deref"]
    ELSE IF value = NULLV
    THEN [nd |-> [nd EXCEPT ![node].size = size],
          result |-> LINKED_LIST_SUCCESS, ub |-> "null_deref"]
    ELSE [nd |-> [nd EXCEPT ![node].size = size, ![node].value = value],
          result |-> LINKED_LIST_SUCCESS, ub |-> NoUB]

\* the node index steps after p (NULL past the end)
RECURSIVE NodeAfter(_, _, _)
NodeAfter(nd, p, index) ==
    IF p = NULL \/ index = 0 THEN p ELSE NodeAfter(nd, nd[p].next, index - 1)

linked_list_node_get(ll, nd, index) ==
    IF index >= ll.size \/ index < 0
    THEN [p |-> NULL, result |-> LINKED_LIST_INDEX_OUT_OF_RANGE_ERROR]
    ELSE [p |-> NodeAfter(nd, ll.head, index), result |-> LINKED_LIST_SUCCESS]

\* the conversion of the comparator's int32_t to merge's int8_t
ToInt8(x) == ((x + 128) % 256) - 128

\* the last node of the chain from p (p itself when it has no successor)
RECURSIVE LastNode(_, _)
LastNode(nd, p) ==
    IF p = NULL \/ nd[p].next = NULL THEN p ELSE LastNode(nd, nd[p].next)

\* merge deciding as if ascending were always set
TakeFromFirstHalf_ascending_only(nd, firstHalf, secondHalf, ascending) ==
    ToInt8(default_equals(nd[firstHalf].value, nd[secondHalf].value,
                          nd[firstHalf].size)) <= 0

\* merge deciding with strict comparisons: ties go to the second half
TakeFromFirstHalf_strict(nd, firstHalf, secondHalf, ascending) ==
    LET equality == ToInt8(default_equals(nd[firstHalf].value,
                                          nd[secondHalf].value,
                                          nd[firstHalf].size))
    IN  IF ascending THEN equality < 0 ELSE equality > 0

\* merge's decision on the int32_t r the equality function returned: r is
\* stored in the int8_t equality before it is looked at
takeFromFirstHalf(r, ascending) ==
    LET equality == ToInt8(r)
    IN  IF ascending THEN equality <= 0 ELSE equality >= 0

\* merge's decision for the two current nodes
TakeFromFirstHalf(nd, firstHalf, secondHalf, ascending) ==
    takeFromFirstHalf(default_equals(nd[firstHalf].value,
                                     nd[secondHalf].value,
                                     nd[firstHalf].size), ascending)

\* merge's while loop and what follows it; yields the node heap
RECURSIVE MergeLoop(_, _, _, _, _)
MergeLoop(nd, firstHalf, secondHalf, lastMergedNode, ascending) ==
    IF firstHalf # NULL /\ secondHalf # NULL
    THEN IF TakeFromFirstHalf(nd, firstHalf, secondHalf, ascending)
         THEN MergeLoop([nd EXCEPT ![lastMergedNode].next = firstHalf],
                        nd[firstHalf].next, secondHalf, firstHalf, ascending)
         ELSE MergeLoop([nd EXCEPT ![lastMergedNode].next = secondHalf],
                        firstHalf, nd[secondHalf].next, secondHalf, ascending)
    ELSE IF firstHalf = NULL
    THEN [nd EXCEPT ![lastMergedNode].next = secondHalf]
    ELSE [nd EXCEPT ![lastMergedNode].next = firstHalf]

merge(nd, firstHalf, secondHalf, ascending) ==
    IF firstHalf = NULL
    THEN [nd |-> nd, head |-> secondHalf, tail |-> LastNode(nd, secondHalf)]
    ELSE IF secondHalf = NULL
    THEN [nd |-> nd, head |-> firstHalf, tail |-> LastNode(nd, firstHalf)]
    ELSE
      LET first == TakeFromFirstHalf(nd, firstHalf, secondHalf, ascending)
          newHead == IF first THEN firstHalf ELSE secondHalf
          merged == MergeLoop(nd,
                              IF first THEN nd[firstHalf].next ELSE firstHalf,
                              IF first THEN secondHalf ELSE nd[secondHalf].next,
                              newHead, ascending)
      IN  [nd |-> merged, head |-> newHead, tail |-> LastNode(merged, newHead)]

\* merge_split's loop: the node singleStep ends on
RECURSIVE SplitPoint(_, _, _)
SplitPoint(nd, singleStep, doubleStep) ==
    IF doubleStep # NULL /\ nd[doubleStep].next # NULL
    THEN SplitPoint(nd, nd[singleStep].next, nd[nd[doubleStep].next].next)
    ELSE singleStep

merge_split(nd, source) ==
    IF source = NULL \/ nd[source].next = NULL
    THEN [nd |-> nd, firstHalf |-> source, secondHalf |-> NULL]
    ELSE LET singleStep == SplitPoint(nd, source, nd[source].next)
         IN  [nd |-> [nd EXCEPT ![singleStep].next = NULL],
              firstHalf |-> source, secondHalf |-> nd[singleStep].next]

RECURSIVE merge_sort(_, _, _)
merge_sort(nd, head, ascending) ==
    IF head = NULL \/ nd[head].next = NULL
    THEN [nd |-> nd, head |-> head, tail |-> head]
    ELSE LET split == merge_split(nd, head)
             firstHalf == merge_sort(split.nd, split.firstHalf, ascending)
             secondHalf == merge_sort(firstHalf.nd, split.secondHalf, ascending)
         IN  merge(secondHalf.nd, firstHalf.head, secondHalf.head, ascending)

\* default_sort without its assignment to tail
linked_default_sort_keeps_tail(ll, nd, ascending) ==
    [ll |-> [ll EXCEPT !.head = merge_sort(nd, ll.head, ascending).head],
     nd |-> merge_sort(nd, ll.head, ascending).nd,
     result |-> LINKED_LIST_SUCCESS, ub |-> NoUB]

linked_default_sort(ll, nd, ascending) ==
    LET sorted == merge_sort(nd, ll.head, ascending)
    IN  [ll |-> [ll EXCEPT !.head = sorted.head, !.tail = sorted.tail],
         nd |-> sorted.nd, result |-> LINKED_LIST_SUCCESS, ub |-> NoUB]

---------------------------------------------------------------------------
(* linked_list.c: public functions *)

linked_list_create ==
    [head |-> NULL, tail |-> NULL, size |-> 0,
     equalityFunction |-> "default_equals", sortingFunction |-> "default_sort",
     made |-> TRUE]

\* an append that links the node in and leaves tail where it was
linked_list_append_keeps_tail(ll, nd, value, size) ==
    LET c == linked_list_node_create(nd, value, size, NULL)
    IN  IF ll.head = NULL
        THEN [ll |-> [ll EXCEPT !.head = c.p, !.tail = c.p, !.size = ll.size + 1],
              nd |-> c.nd, result |-> LINKED_LIST_SUCCESS, ub |-> NoUB]
        ELSE [ll |-> [ll EXCEPT !.size = ll.size + 1],
              nd |-> [c.nd EXCEPT ![ll.tail].next = c.p],
              result |-> LINKED_LIST_SUCCESS, ub |-> NoUB]

linked_list_append(ll, nd, value, size) ==
    LET c == linked_list_node_create(nd, value, size, NULL)
    IN  IF ll.head = NULL
        THEN [ll |-> [ll EXCEPT !.head = c.p, !.tail = c.p, !.size = ll.size + 1],
              nd |-> c.nd, result |-> LINKED_LIST_SUCCESS, ub |-> NoUB]
        ELSE [ll |-> [ll EXCEPT !.tail = c.p, !.size = ll.size + 1],
              nd |-> [c.nd EXCEPT ![ll.tail].next = c.p],
              result |-> LINKED_LIST_SUCCESS,
              ub |-> IF nd[ll.tail].live THEN NoUB ELSE "use_after_free"]

\* a prepend that forgets the tail of an empty list
linked_list_prepend_head_only(ll, nd, value, size) ==
    LET c == linked_list_node_create(nd, value, size, ll.head)
    IN  [ll |-> [ll EXCEPT !.head = c.p, !.size = ll.size + 1],
         nd |-> c.nd, result |-> LINKED_LIST_SUCCESS, ub |-> NoUB]

linked_list_prepend(ll, nd, value, size) ==
    LET c == linked_list_node_create(nd, value, size, ll.head)
    IN  IF c.result # LINKED_LIST_SUCCESS
        THEN [ll |-> ll, nd |-> c.nd, result |-> c.result, ub |-> NoUB]
        ELSE [ll |-> [ll EXCEPT !.head = c.p,
                                !.tail = IF ll.head = NULL THEN c.p ELSE @,
                                !.size = ll.size + 1],
              nd |-> c.nd, result |-> LINKED_LIST_SUCCESS, ub |-> NoUB]

linked_list_insert(ll, nd, index, value, size) ==
    IF index > ll.size \/ index < 0
    THEN [ll |-> ll, nd |-> nd,
          result |-> LINKED_LIST_INDEX_OUT_OF_RANGE_ERROR, ub |-> NoUB]
    ELSE LET c == linked_list_node_create(nd, value, size, NULL)
             newNode == c.p
             grown == [ll EXCEPT !.size = ll.size + 1]
         IN  IF ll.head = NULL
             THEN [ll |-> [grown EXCEPT !.head = newNode, !.tail = newNode],
                   nd |-> c.nd, result |-> LINKED_LIST_SUCCESS, ub |-> NoUB]
             ELSE IF index = 0
             THEN [ll |-> [grown EXCEPT !.head = newNode],
                   nd |-> [c.nd EXCEPT ![newNode].next = ll.head],
                   result |-> LINKED_LIST_SUCCESS, ub |-> NoUB]
             ELSE IF index = ll.size
             THEN [ll |-> [grown EXCEPT !.tail = newNode],
                   nd |-> [c.nd EXCEPT ![ll.tail].next = newNode],
                   result |-> LINKED_LIST_SUCCESS, ub |-> NoUB]
             ELSE LET previousNode == linked_list_node_get(ll, nd, index - 1).p
                  IN  [ll |-> grown,
                       nd |-> [c.nd EXCEPT
                                  ![newNode].next = nd[previousNode].next,
                                  ![previousNode].next = newNode],
                       result |-> LINKED_LIST_SUCCESS, ub |-> NoUB]

\* the four cases linked_list_remove and linked_list_pop distinguish: the
\* list and the links once the node at index is out of the chain, and that
\* node
Unlinked(ll, nd, index) ==
    LET shrunk == [ll EXCEPT !.size = ll.size - 1]
    IN  IF ll.size = 1
        THEN [ll |-> [shrunk EXCEPT !.head = NULL, !.tail = NULL],
              nd |-> nd, node |-> ll.head]
        ELSE IF index = 0
        THEN [ll |-> [shrunk EXCEPT !.head = nd[ll.head].next],
              nd |-> nd, node |-> ll.head]
        ELSE IF index = ll.size - 1
        THEN LET newTail == linked_list_node_get(ll, nd, index - 1).p
             IN  [ll |-> [shrunk EXCEPT !.tail = newTail],
                  nd |-> [nd EXCEPT ![newTail].next = NULL],
                  node |-> ll.tail]
        ELSE LET lastNode == NodeAfter(nd, ll.head, index - 1)
                 current == nd[lastNode].next
             IN  [ll |-> shrunk,
                  nd |-> [nd EXCEPT ![lastNode].next = nd[current].next],
                  node |-> current]

\* linked_list_remove taking a negative index for a valid one that removes
\* nothing
linked_list_remove_signed(ll, nd, index) ==
    IF index >= ll.size
    THEN [ll |-> ll, nd |-> nd,
          result |-> LINKED_LIST_INDEX_OUT_OF_RANGE_ERROR, ub |-> NoUB]
    ELSE IF index < 0
    THEN [ll |-> ll, nd |-> nd, result |-> LINKED_LIST_SUCCESS, ub |-> NoUB]
    ELSE LET u == Unlinked(ll, nd, index)
             f == linked_list_node_free(u.nd, u.node)
         IN  [ll |-> u.ll, nd |-> f.nd, result |-> f.result, ub |-> f.ub]

\* index is a uint64_t: a negative argument is a huge one
linked_list_remove(ll, nd, index) ==
    IF index >= ll.size \/ index < 0
    THEN [ll |-> ll, nd |-> nd,
          result |-> LINKED_LIST_INDEX_OUT_OF_RANGE_ERROR, ub |-> NoUB]
    ELSE LET u == Unlinked(ll, nd, index)
             f == linked_list_node_free(u.nd, u.node)
         IN  [ll |-> u.ll, nd |-> f.nd, result |-> f.result, ub |-> f.ub]

\* linked_list_pop handing out a clone of the head's element
linked_list_pop_head_clone(ll, nd, h, index) ==
    IF index >= ll.size \/ index < 0
    THEN [ll |-> ll, nd |-> nd, h |-> h, out |-> NULL,
          result |-> LINKED_LIST_INDEX_OUT_OF_RANGE_ERROR, ub |-> NoUB]
    ELSE LET u == Unlinked(ll, nd, index)
             c == linked_list_element_clone(h, nd, ll.head)
             f == linked_list_node_free(u.nd, u.node)
         IN  IF c.result # LINKED_LIST_SUCCESS
             THEN [ll |-> ll, nd |-> nd, h |-> h, out |-> NULL,
                   result |-> c.result, ub |-> NoUB]
             ELSE [ll |-> u.ll, nd |-> f.nd, h |-> c.h, out |-> c.p,
                   result |-> f.result, ub |-> f.ub]

\* the element is cloned for the caller before its node is released
linked_list_pop(ll, nd, h, index) ==
    IF index >= ll.size \/ index < 0
    THEN [ll |-> ll, nd |-> nd, h |-> h, out |-> NULL,
          result |-> LINKED_LIST_INDEX_OUT_OF_RANGE_ERROR, ub |-> NoUB]
    ELSE LET u == Unlinked(ll, nd, index)
             c == linked_list_element_clone(h, nd, u.node)
             f == linked_list_node_free(u.nd, u.node)
         IN  IF c.result # LINKED_LIST_SUCCESS
             THEN [ll |-> ll, nd |-> nd, h |-> h, out |-> NULL,
                   result |-> c.result, ub |-> NoUB]
             ELSE [ll |-> u.ll, nd |-> f.nd, h |-> c.h, out |-> c.p,
                   result |-> f.result, ub |-> f.ub]

\* the loop releases the node before the one it is at, so the last node of
\* the chain is never released
RECURSIVE FreeBefore(_, _, _)
FreeBefore(nd, previousNode, node) ==
    IF node = NULL THEN nd
    ELSE FreeBefore(IF previousNode # NULL
                    THEN linked_list_node_free(nd, previousNode).nd
                    ELSE nd,
                    node, nd[node].next)

linked_list_clear(ll, nd) ==
    [ll |-> [ll EXCEPT !.head = NULL, !.tail = NULL, !.size = 0],
     nd |-> FreeBefore(nd, NULL, ll.head),
     result |-> LINKED_LIST_SUCCESS, ub |-> NoUB]

RECURSIVE ReverseLoop(_, _, _)
ReverseLoop(nd, previousNode, currentNode) ==
    IF currentNode = NULL THEN [nd |-> nd, previousNode |-> previousNode]
    ELSE ReverseLoop([nd EXCEPT ![currentNode].next = previousNode],
                     currentNode, nd[currentNode].next)

linked_list_reverse(ll, nd) ==
    IF ll.head = NULL
    THEN [ll |-> ll, nd |-> nd, result |-> LINKED_LIST_SUCCESS, ub |-> NoUB]
    ELSE LET r == ReverseLoop(nd, NULL, ll.head)
         IN  [ll |-> [ll EXCEPT !.tail = ll.head, !.head = r.previousNode],
              nd |-> r.nd, result |-> LINKED_LIST_SUCCESS, ub |-> NoUB]

\* a swap that checks its indices and exchanges nothing
linked_list_swap_no_op(ll, nd, index1, index2) ==
    IF index1 >= ll.size \/ index1 < 0 \/ index2 >= ll.size \/ index2 < 0
    THEN [ll |-> ll, nd |-> nd,
          result |-> LINKED_LIST_INDEX_OUT_OF_RANGE_ERROR, ub |-> NoUB]
    ELSE [ll |-> ll, nd |-> nd, result |-> LINKED_LIST_SUCCESS, ub |-> NoUB]

linked_list_swap(ll, nd, index1, index2) ==
    IF index1 >= ll.size \/ index1 < 0 \/ index2 >= ll.size \/ index2 < 0
    THEN [ll |-> ll, nd |-> nd,
          result |-> LINKED_LIST_INDEX_OUT_OF_RANGE_ERROR, ub |-> NoUB]
    ELSE IF index1 = index2
    THEN [ll |-> ll, nd |-> nd, result |-> LINKED_LIST_SUCCESS, ub |-> NoUB]
    ELSE LET node1Previous == IF index1 = 0 THEN NULL
                              ELSE NodeAfter(nd, ll.head, index1 - 1)
             node1 == NodeAfter(nd, ll.head, index1)
             node2Previous == IF index2 = 0 THEN NULL
                              ELSE NodeAfter(nd, ll.head, index2 - 1)
             node2 == NodeAfter(nd, ll.head, index2)
             nd1 == IF node1Previous # NULL
                    THEN [nd EXCEPT ![node1Previous].next = node2] ELSE nd
             head1 == IF node1Previous # NULL THEN ll.head ELSE node2
             nd2 == IF node2Previous # NULL
                    THEN [nd1 EXCEPT ![node2Previous].next = node1] ELSE nd1
             head2 == IF node2Previous # NULL THEN head1 ELSE node1
             temp == nd2[node2].next
             nd3 == [nd2 EXCEPT ![node2].next = nd2[node1].next]
             nd4 == [nd3 EXCEPT ![node1].next = temp]
             tail == IF node1 = ll.tail THEN node2
                     ELSE IF node2 = ll.tail THEN node1 ELSE ll.tail
         IN  [ll |-> [ll EXCEPT !.head = head2, !.tail = tail],
              nd |-> nd4, result |-> LINKED_LIST_SUCCESS, ub |-> NoUB]

\* the call linkedList->sortingFunction(linkedList, ascending)
linked_sortingFunction(ll, nd, ascending) ==
    IF ll.sortingFunction \in CustomSortingFunctions
    THEN [ll |-> ll, nd |-> nd,
          result |-> CustomSortResult(ll.sortingFunction), ub |-> NoUB]
    ELSE IF ll.sortingFunction # "default_sort"
    THEN [ll |-> ll, nd |-> nd, result |-> LINKED_LIST_SUCCESS,
          ub |-> "wild_deref"]
    ELSE linked_default_sort(ll, nd, ascending)

linked_list_sort(ll, nd, ascending) ==
    IF ll.size = 0 \/ ll.size = 1
    THEN [ll |-> ll, nd |-> nd, result |-> LINKED_LIST_SUCCESS, ub |-> NoUB,
          invoked |-> <<>>]
    ELSE linked_sortingFunction(ll, nd, ascending)
            @@ [invoked |-> <<<<ll.sortingFunction, ascending>>>>]

\* the clones linked_list_join makes of the chain from node, linked after
\* previousNodeClone; head is the joined list's head so far
RECURSIVE CloneChain(_, _, _, _)
CloneChain(nd, node, head, previousNodeClone) ==
    IF node = NULL
    THEN [nd |-> nd, head |-> head, previousNodeClone |-> previousNodeClone]
    ELSE LET c == linked_list_node_clone(nd, node)
         IN  IF head = NULL
             THEN CloneChain(c.nd, nd[node].next, c.p, c.p)
             ELSE CloneChain([c.nd EXCEPT ![previousNodeClone].next = c.p],
                             nd[node].next, head, c.p)

\* the joined list's function pointers are never assigned
linked_list_join(linkedList1, linkedList2, nd) ==
    LET first == CloneChain(nd, linkedList1.head, NULL, NULL)
        second == CloneChain(first.nd, linkedList2.head, first.head,
                             first.previousNodeClone)
    IN  [ll |-> [head |-> second.head, tail |-> second.previousNodeClone,
                 size |-> linkedList1.size + linkedList2.size,
                 equalityFunction |-> "indeterminate",
                 sortingFunction |-> "indeterminate", made |-> TRUE],
         nd |-> second.nd, result |-> LINKED_LIST_SUCCESS, ub |-> NoUB]

\* the loop of linked_list_find_last: every node from startFromIndex on is
\* compared over size bytes, whatever the size of its element; memcmp then
\* reads past the end of a buffer that is shorter
RECURSIVE LinkedFindLastLoop(_, _, _, _, _, _, _)
LinkedFindLastLoop(nd, node, index, startFromIndex, value, size, found) ==
    IF node = NULL THEN found
    ELSE IF index < startFromIndex
    THEN LinkedFindLastLoop(nd, nd[node].next, index + 1, startFromIndex,
                            value, size, found)
    ELSE LET over == nd[node].value # NULLV /\ value # NULLV
                        /\ nd[node].size < size
             hit == default_equals(nd[node].value, value, size) = 0
         IN  LinkedFindLastLoop(nd, nd[node].next, index + 1, startFromIndex,
                                value, size,
                                [lastFoundIndex |->
                                    IF hit THEN index
                                    ELSE found.lastFoundIndex,
                                 ub |-> FirstUB(found.ub,
                                                IF over THEN "out_of_bounds"
                                                ELSE NoUB)])

\* when the start index is refused *indexOut is not written: it keeps the -1
\* the caller preset
linked_list_find_last(ll, nd, startFromIndex, value, size) ==
    IF startFromIndex >= ll.size \/ startFromIndex < 0
    THEN [index |-> -1, result |-> LINKED_LIST_INDEX_OUT_OF_RANGE_ERROR,
          ub |-> NoUB]
    ELSE LET f == LinkedFindLastLoop(nd, ll.head, 0, startFromIndex, value,
                                     size, [lastFoundIndex |-> -1,
                                            ub |-> NoUB])
         IN  [index |-> f.lastFoundIndex,
              result |-> IF f.lastFoundIndex = -1
                         THEN LINKED_LIST_ELEMENT_NOT_FOUND_ERROR
                         ELSE LINKED_LIST_SUCCESS,
              ub |-> f.ub]

linked_list_get(ll, nd, h, index) ==
    IF index >= ll.size \/ index < 0
    THEN [ll |-> ll, nd |-> nd, h |-> h, out |-> NULL,
          result |-> LINKED_LIST_INDEX_OUT_OF_RANGE_ERROR, ub |-> NoUB]
    ELSE LET c == linked_list_element_clone(h, nd,
                                            NodeAfter(nd, ll.head, index))
         IN  [ll |-> ll, nd |-> nd, h |-> c.h, out |-> c.p,
              result |-> c.result, ub |-> NoUB]

linked_list_set(ll, nd, index, value, size) ==
    IF index >= ll.size \/ index < 0
    THEN [ll |-> ll, nd |-> nd,
          result |-> LINKED_LIST_INDEX_OUT_OF_RANGE_ERROR, ub |-> NoUB]
    ELSE LET r == linked_list_element_set(nd, NodeAfter(nd, ll.head, index),
                                          value, size)
         IN  [ll |-> ll, nd |-> r.nd, result |-> r.result, ub |-> r.ub]

\* the clone's function pointers are never assigned
linked_list_clone(ll, nd) ==
    LET c == IF ll.size > 0 THEN CloneChain(nd, ll.head, NULL, NULL)
             ELSE [nd |-> nd, head |-> NULL, previousNodeClone |-> NULL]
    IN  [ll |-> [head |-> c.head, tail |-> c.previousNodeClone,
                 size |-> ll.size, equalityFunction |-> "indeterminate",
                 sortingFunction |-> "indeterminate", made |-> TRUE],
         nd |-> c.nd, result |-> LINKED_LIST_SUCCESS, ub |-> NoUB]

\* the loop of linked_list_resize that is meant to free the chain from
\* node: its first pass only remembers node; its second pass frees the
\* successor, which sets the loop variable to NULL, and then reads ->next
\* through it
FreeFrom(nd, node) ==
    IF node = NULL \/ nd[node].next = NULL
    THEN [nd |-> nd, ub |-> NoUB]
    ELSE [nd |-> linked_list_node_free(nd, nd[node].next).nd,
          ub |-> "null_deref"]

\* count valueless nodes linked after previousNode
RECURSIVE GrowChain(_, _, _)
GrowChain(nd, previousNode, count) ==
    IF count <= 0 THEN [nd |-> nd, previousNode |-> previousNode]
    ELSE LET c == linked_list_node_create(nd, NULLV, SizeofPointer, NULL)
         IN  GrowChain([c.nd EXCEPT ![previousNode].next = c.p], c.p,
                       count - 1)

linked_list_resize(ll, nd, size) ==
    IF size = ll.size
    THEN [ll |-> ll, nd |-> nd, result |-> LINKED_LIST_SUCCESS, ub |-> NoUB]
    ELSE IF size = 0
    THEN LET f == FreeFrom(nd, ll.head)
         IN  [ll |-> [ll EXCEPT !.head = NULL, !.tail = NULL, !.size = size],
              nd |-> f.nd, result |-> LINKED_LIST_SUCCESS, ub |-> f.ub]
    ELSE IF size > ll.size
    THEN LET first == IF ll.head = NULL
                      THEN linked_list_node_create(nd, NULLV, SizeofPointer,
                                                   NULL)
                      ELSE [nd |-> nd, p |-> ll.tail]
             head == IF ll.head = NULL THEN first.p ELSE ll.head
             g == GrowChain(first.nd, first.p, size - ll.size)
         IN  [ll |-> [ll EXCEPT !.head = head, !.tail = g.previousNode,
                                !.size = size],
              nd |-> g.nd, result |-> LINKED_LIST_SUCCESS, ub |-> NoUB]
    ELSE LET startingNode == linked_list_node_get(ll, nd, size - 1).p
         IN  IF startingNode = NULL
             THEN [ll |-> ll, nd |-> nd, result |-> LINKED_LIST_SUCCESS,
                   ub |-> "wild_deref"]
             ELSE LET f == FreeFrom(nd, nd[startingNode].next)
                  IN  [ll |-> [ll EXCEPT !.size = size],
                       nd |-> [f.nd EXCEPT ![startingNode].next = NULL],
                       result |-> LINKED_LIST_SUCCESS, ub |-> f.ub]

linked_list_iterator_create(hd) ==
    [list |-> hd, index |-> -1, node |-> NULL, made |-> TRUE]

linked_list_iterator_next(it, ll, nd) ==
    IF it.node = NULL
    THEN [it |-> [it EXCEPT !.node = ll.head, !.index = 0],
          result |-> LINKED_LIST_SUCCESS]
    ELSE IF nd[it.node].next = NULL
    THEN [it |-> [it EXCEPT !.node = NULL, !.index = -1],
          result |-> LINKED_LIST_INDEX_OUT_OF_RANGE_ERROR]
    ELSE [it |-> [it EXCEPT !.node = nd[it.node].next,
                            !.index = it.index + 1],
          result |-> LINKED_LIST_SUCCESS]

linked_list_iterator_rewind(it) ==
    [it |-> [it EXCEPT !.node = NULL, !.index = -1],
     result |-> LINKED_LIST_SUCCESS]

---------------------------------------------------------------------------
(* The caller program: one API call per step *)

NoList == [size |-> 0, capacity |-> 0, items |-> <<>>,
           equalityFunction |-> "", sortingFunction |-> ""]
NoIterator == [list |-> "", index |-> 0, element |-> NULL, made |-> FALSE]
NoLinkedList == [head |-> NULL, tail |-> NULL, size |-> 0,
                 equalityFunction |-> "", sortingFunction |-> "",
                 made |-> FALSE]
NoLinkedIterator == [list |-> "", index |-> 0, node |-> NULL, made |-> FALSE]
NoCall == [op |-> "", handle |-> "", index |-> 0, value |-> NULLV, size |-> 0,
           flag |-> FALSE, index2 |-> 0, result |-> 0, ub |-> NoUB,
           out |-> NULL,
           pre |-> NoList, preHeap |-> <<>>, log |-> <<>>]

ListHandles == {"a", "b", "out"}

\* undefined behaviour either ends the process or goes unnoticed; a read
\* through NULL or through an indeterminate pointer ends it; a store to a
\* record that was just released may also leave the program as it is
StatusAfter(ub) ==
    IF ub = NoUB THEN {"running"}
    ELSE IF ub \in {"null_deref", "wild_deref"} THEN {"crashed"}
    ELSE IF ub = "write_after_free" THEN {"running", "crashed", "undefined"}
    ELSE {"crashed", "undefined"}

\* the effect of a call on list hd whose outcome is r; c records the call
ListCall(hd, r, c) ==
    /\ status = "running"
    /\ status' \in StatusAfter(r.ub)
    /\ lists' = [lists EXCEPT ![hd] = r.l]
    /\ heap' = r.h
    /\ call' = [c EXCEPT !.handle = hd, !.result = r.result, !.ub = r.ub]
    /\ UNCHANGED <<kind, iterator, linkedVars>>

Op(name) == [NoCall EXCEPT !.op = name]
OpAt(name, index) == [NoCall EXCEPT !.op = name, !.index = index]

\* the caller never asks for more memory than the model's heap holds
Live(h) == {a \in Addr : h[a].live}
CanMalloc(n) == Cardinality(Live(heap)) < n
CanHold == Cardinality(held) < MaxHeld
CanGrow(hd) == lists[hd].size < lists[hd].capacity
                  \/ lists[hd].capacity * 2 <= MaxCap

StructValues == {<<1>>}
SortValues == {<<b>> : b \in Bytes}
Indexes == -1..MaxCap

\* V: the values the caller stores; n: the elements it keeps alive at most
ListAppend(hd, V, n) ==
    /\ CanMalloc(n) /\ CanGrow(hd)
    /\ \E value \in V, u \in Uninit :
          ListCall(hd, list_append(lists[hd], heap, value, Len(value), u),
                   [Op("list_append") EXCEPT !.value = value,
                                             !.size = Len(value)])
    /\ UNCHANGED held

ListPrepend(hd, V, n) ==
    /\ CanMalloc(n) /\ CanGrow(hd)
    /\ \E value \in V, u \in Uninit :
          ListCall(hd, list_prepend(lists[hd], heap, value, Len(value), u),
                   [Op("list_prepend") EXCEPT !.value = value,
                                              !.size = Len(value)])
    /\ UNCHANGED held

\* I: the indices the caller passes; the call record keeps the list and the
\* heap as they were
ListInsert(hd, I, V, n) ==
    /\ CanMalloc(n) /\ CanGrow(hd)
    /\ \E index \in I, value \in V, u \in Uninit :
          ListCall(hd, list_insert(lists[hd], heap, index, value, Len(value), u),
                   [OpAt("list_insert", index) EXCEPT !.value = value,
                                                      !.size = Len(value),
                                                      !.pre = lists[hd],
                                                      !.preHeap = heap])
    /\ UNCHANGED held

ListRemove(hd, I) ==
    /\ \E index \in I :
          ListCall(hd, list_remove(lists[hd], heap, index),
                   OpAt("list_remove", index))
    /\ UNCHANGED held

ListPop(hd, I, n) ==
    /\ CanMalloc(n) /\ CanHold
    /\ \E index \in I :
          LET r == list_pop(lists[hd], heap, index)
          IN  /\ ListCall(hd, r, [OpAt("list_pop", index) EXCEPT !.out = r.out])
              /\ held' = IF r.out # NULL THEN held \cup {r.out} ELSE held

ListClear(hd) ==
    /\ ListCall(hd, list_clear(lists[hd], heap), Op("list_clear"))
    /\ UNCHANGED held

ListResize(hd) ==
    /\ \E capacity \in 0..MaxCap, u \in Uninit :
          ListCall(hd, list_resize(lists[hd], heap, capacity, u),
                   [OpAt("list_resize", capacity) EXCEPT !.pre = lists[hd],
                                                         !.preHeap = heap])
    /\ UNCHANGED held

ListSort(hd) ==
    /\ \E ascending \in BOOLEAN :
          ListCall(hd, list_sort(lists[hd], heap, ascending),
                   [Op("list_sort") EXCEPT !.flag = ascending,
                                           !.pre = lists[hd],
                                           !.preHeap = heap])
    /\ UNCHANGED held

\* the caller releases an element it was handed: list_element_free(&element)
ListElementFree ==
    /\ status = "running"
    /\ \E a \in held :
          LET f == list_element_free(heap, a)
          IN  /\ heap' = f.h
              /\ held' = held \ {a}
              /\ call' = [OpAt("list_element_free", a) EXCEPT
                             !.result = f.result, !.ub = f.ub]
              /\ status' \in StatusAfter(f.ub)
    /\ UNCHANGED <<kind, lists, iterator, linkedVars>>

InitEmpty ==
    /\ heap = EmptyHeap
    /\ held = {}
    /\ iterator = NoIterator
    /\ nodes = EmptyNodes
    /\ linkedIterator = NoLinkedIterator
    /\ call = NoCall
    /\ status = "running"

\* the lists after list_create(&a, capacity, NULL, NULL)
OnlyA(capacity) ==
    [hd \in ListHandles |-> IF hd = "a" THEN list_create(capacity) ELSE NoList]
NoLinkedLists == [hd \in ListHandles |-> NoLinkedList]

InitList ==
    /\ InitEmpty
    /\ kind = "list"
    /\ linkedLists = NoLinkedLists
    /\ \E capacity \in 1..2 : lists = OnlyA(capacity)

\* any call, with any index
NextList ==
    \/ ListAppend("a", StructValues, MaxElems)
    \/ ListPrepend("a", StructValues, MaxElems)
    \/ ListInsert("a", Indexes, StructValues, MaxElems)
    \/ ListRemove("a", Indexes)
    \/ ListPop("a", Indexes, MaxElems)
    \/ ListClear("a")
    \/ ListElementFree

SpecList == InitList /\ [][NextList]_vars

\* the indices inside the list
Inside(hd) == 0..(lists[hd].size - 1)

Resized == call.op = "list_resize"

\* calls with indices inside the list only, then one resize
NextResize ==
    \/ ~Resized /\ ListAppend("a", StructValues, MaxElems)
    \/ ~Resized /\ ListPrepend("a", StructValues, MaxElems)
    \/ ~Resized /\ ListInsert("a", Inside("a"), StructValues, MaxElems)
    \/ ~Resized /\ ListRemove("a", Inside("a"))
    \/ ~Resized /\ ListPop("a", Inside("a"), MaxElems)
    \/ ~Resized /\ ListResize("a")
    \/ ~Resized /\ ListElementFree

SpecResize == InitList /\ [][NextResize]_vars

\* a list built by appends, sorted at any time in either direction
InitSort ==
    /\ InitEmpty
    /\ kind = "list"
    /\ linkedLists = NoLinkedLists
    /\ lists = OnlyA(MaxCap)

NextSort ==
    \/ /\ lists["a"].size < lists["a"].capacity
       /\ ListAppend("a", SortValues, MaxAddr)
    \/ ListSort("a")

SpecSort == InitSort /\ [][NextSort]_vars

---------------------------------------------------------------------------
(* The caller program on linked lists *)

\* the effect of a call on linked list hd whose outcome is r
LinkedCall(hd, r, c) ==
    /\ status = "running"
    /\ status' \in StatusAfter(r.ub)
    /\ linkedLists' = [linkedLists EXCEPT ![hd] = r.ll]
    /\ nodes' = r.nd
    /\ call' = [c EXCEPT !.handle = hd, !.result = r.result, !.ub = r.ub]
    /\ UNCHANGED <<kind, listVars, linkedIterator>>

LiveNodes(nd) == {a \in NodeAddr : nd[a].live}
CanMallocNode(n) == Cardinality(LiveNodes(nodes)) < n

LinkedAppend(hd, V, n) ==
    /\ CanMallocNode(n)
    /\ \E value \in V :
          LinkedCall(hd, linked_list_append(linkedLists[hd], nodes, value,
                                            Len(value)),
                     [Op("linked_list_append") EXCEPT !.value = value,
                                                      !.size = Len(value)])

\* the call record keeps the chain as it was: the nodes from head, in order
RECURSIVE Chain(_, _, _)
Chain(nd, p, fuel) ==
    IF p = NULL \/ fuel = 0 \/ ~nd[p].live THEN <<>>
    ELSE <<p>> \o Chain(nd, nd[p].next, fuel - 1)

NodesOf(ll, nd) == Chain(nd, ll.head, MaxNodes + 1)

LinkedSort(hd) ==
    /\ \E ascending \in BOOLEAN :
          LinkedCall(hd, linked_list_sort(linkedLists[hd], nodes, ascending),
                     [Op("linked_list_sort") EXCEPT
                         !.flag = ascending,
                         !.log = NodesOf(linkedLists[hd], nodes)])

OnlyLinkedA ==
    [hd \in ListHandles |-> IF hd = "a" THEN linked_list_create
                            ELSE NoLinkedList]
NoLists == [hd \in ListHandles |-> NoList]

\* a linked list built by appends, sorted at any time in either direction
InitLinkedSort ==
    /\ InitEmpty
    /\ kind = "linked_list"
    /\ lists = NoLists
    /\ linkedLists = OnlyLinkedA

NextLinkedSort ==
    \/ LinkedAppend("a", SortValues, MaxNodes)
    \/ LinkedSort("a")

SpecLinkedSort == InitLinkedSort /\ [][NextLinkedSort]_vars

\* linked_list_resize(list, size); the call record keeps the chain, the list
\* and the nodes as they were
LinkedResize(hd) ==
    /\ \E size \in 0..(MaxNodes - 1) :
          /\ Cardinality(LiveNodes(nodes))
                + Max({size - linkedLists[hd].size, 0})
                + (IF linkedLists[hd].head = NULL THEN 1 ELSE 0) <= MaxNodes
          /\ LinkedCall(hd, linked_list_resize(linkedLists[hd], nodes, size),
                        [OpAt("linked_list_resize", size) EXCEPT
                            !.pre = linkedLists[hd],
                            !.preHeap = nodes,
                            !.log = NodesOf(linkedLists[hd], nodes)])

\* a linked list built by appends and resized at any time
InitLinkedResize ==
    /\ InitEmpty
    /\ kind = "linked_list"
    /\ lists = NoLists
    /\ linkedLists = OnlyLinkedA

NextLinkedResize ==
    \/ LinkedAppend("a", StructValues, MaxNodes)
    \/ LinkedResize("a")

SpecLinkedResize == InitLinkedResize /\ [][NextLinkedResize]_vars

\* n: the elements the caller keeps in the list at most
LinkedRoom(hd, n) == CanMallocNode(MaxNodes) /\ linkedLists[hd].size < n

LinkedPrepend(hd, V, n) ==
    /\ LinkedRoom(hd, n)
    /\ \E value \in V :
          LinkedCall(hd, linked_list_prepend(linkedLists[hd], nodes, value,
                                             Len(value)),
                     [Op("linked_list_prepend") EXCEPT
                         !.value = value, !.size = Len(value)])

\* the call record keeps the list and the nodes as they were
LinkedInsert(hd, I, V, n) ==
    /\ LinkedRoom(hd, n)
    /\ \E index \in I, value \in V :
          LinkedCall(hd, linked_list_insert(linkedLists[hd], nodes, index,
                                            value, Len(value)),
                     [OpAt("linked_list_insert", index) EXCEPT
                         !.value = value, !.size = Len(value),
                         !.pre = linkedLists[hd], !.preHeap = nodes])

LinkedRemove(hd, I) ==
    /\ \E index \in I :
          LinkedCall(hd, linked_list_remove(linkedLists[hd], nodes, index),
                     OpAt("linked_list_remove", index))

LinkedPop(hd, I) ==
    /\ CanMalloc(MaxAddr) /\ CanHold
    /\ status = "running"
    /\ \E index \in I :
          LET r == linked_list_pop(linkedLists[hd], nodes, heap, index)
          IN  /\ status' \in StatusAfter(r.ub)
              /\ linkedLists' = [linkedLists EXCEPT ![hd] = r.ll]
              /\ nodes' = r.nd
              /\ heap' = r.h
              /\ held' = IF r.out # NULL THEN held \cup {r.out} ELSE held
              /\ call' = [OpAt("linked_list_pop", index) EXCEPT
                             !.handle = hd, !.out = r.out,
                             !.result = r.result, !.ub = r.ub]
    /\ UNCHANGED <<kind, lists, iterator, linkedIterator>>

\* the call record keeps the count the list had
LinkedClear(hd) ==
    LinkedCall(hd, linked_list_clear(linkedLists[hd], nodes),
               [Op("linked_list_clear") EXCEPT !.size = linkedLists[hd].size])

LinkedReverse(hd) ==
    LinkedCall(hd, linked_list_reverse(linkedLists[hd], nodes),
               Op("linked_list_reverse"))

LinkedSwap(hd, I) ==
    /\ \E index1 \in I, index2 \in I :
          LinkedCall(hd, linked_list_swap(linkedLists[hd], nodes, index1,
                                          index2),
                     [OpAt("linked_list_swap", index1) EXCEPT
                         !.index2 = index2,
                         !.log = NodesOf(linkedLists[hd], nodes)])

\* the caller releases an element it was handed:
\* linked_list_element_free(&element)
LinkedElementFree ==
    /\ status = "running"
    /\ \E a \in held :
          LET f == linked_list_element_free(heap, a)
          IN  /\ heap' = f.h
              /\ held' = held \ {a}
              /\ call' = [OpAt("linked_list_element_free", a) EXCEPT
                             !.result = f.result, !.ub = f.ub]
              /\ status' \in StatusAfter(f.ub)
    /\ UNCHANGED <<kind, lists, iterator, linkedVars>>

LinkedIndexes == -1..MaxElems

\* a program calling the functions of linked_list.h that change one list
NextLinked ==
    \/ LinkedRoom("a", MaxElems) /\ LinkedAppend("a", StructValues, MaxNodes)
    \/ LinkedPrepend("a", StructValues, MaxElems)
    \/ LinkedInsert("a", LinkedIndexes, StructValues, MaxElems)
    \/ LinkedRemove("a", LinkedIndexes)
    \/ LinkedPop("a", LinkedIndexes)
    \/ LinkedClear("a")
    \/ LinkedReverse("a")
    \/ LinkedSwap("a", LinkedIndexes)
    \/ LinkedSort("a")
    \/ LinkedElementFree

SpecLinked == InitLinkedSort /\ [][NextLinked]_vars

---------------------------------------------------------------------------
(* The caller program joining two containers *)

Joined == call.op \in {"list_join", "linked_list_join"}

\* list_join(a, b, &out)
ListJoin ==
    /\ kind = "list"
    /\ Cardinality(Live(heap)) + lists["a"].size + lists["b"].size <= MaxAddr
    /\ ListCall("out", list_join(lists["a"], lists["b"], heap),
                [Op("list_join") EXCEPT
                    !.pre = [a |-> lists["a"], b |-> lists["b"]],
                    !.preHeap = heap])
    /\ UNCHANGED held

\* linked_list_join(a, b, &out)
LinkedJoin ==
    /\ kind = "linked_list"
    /\ Cardinality(LiveNodes(nodes)) + linkedLists["a"].size
          + linkedLists["b"].size <= MaxNodes
    /\ LinkedCall("out",
                  linked_list_join(linkedLists["a"], linkedLists["b"], nodes),
                  [Op("linked_list_join") EXCEPT
                      !.pre = [a |-> linkedLists["a"], b |-> linkedLists["b"]],
                      !.preHeap = nodes])

\* two containers of either kind, created empty
InitJoin ==
    /\ InitEmpty
    /\ kind \in {"list", "linked_list"}
    /\ IF kind = "list"
       THEN /\ linkedLists = NoLinkedLists
            /\ \E capacity \in 1..2 :
                  lists = [hd \in ListHandles |->
                              IF hd = "out" THEN NoList
                              ELSE list_create(capacity)]
       ELSE /\ lists = NoLists
            /\ linkedLists = [hd \in ListHandles |->
                                 IF hd = "out" THEN NoLinkedList
                                 ELSE linked_list_create]

\* appends to either container, then one join
NextJoin ==
    \/ \E hd \in {"a", "b"} :
          /\ ~Joined /\ kind = "list"
          /\ ListAppend(hd, SortValues, MaxAddr \div 2)
    \/ \E hd \in {"a", "b"} :
          /\ ~Joined /\ kind = "linked_list"
          /\ LinkedAppend(hd, SortValues, MaxNodes \div 2)
    \/ ~Joined /\ ListJoin
    \/ ~Joined /\ LinkedJoin

SpecJoin == InitJoin /\ [][NextJoin]_vars

---------------------------------------------------------------------------
(* The caller program cloning a container *)

Cloned == call.op \in {"list_clone", "linked_list_clone"}

\* list_clone(a, &out); the call record keeps a and the heap as they were
ListClone ==
    /\ kind = "list"
    /\ Cardinality(Live(heap)) + lists["a"].size <= MaxAddr
    /\ ListCall("out", list_clone(lists["a"], heap),
                [Op("list_clone") EXCEPT !.pre = lists["a"],
                                        !.preHeap = heap])
    /\ UNCHANGED held

\* linked_list_clone(a, &out)
LinkedClone ==
    /\ kind = "linked_list"
    /\ Cardinality(LiveNodes(nodes)) + linkedLists["a"].size <= MaxNodes
    /\ LinkedCall("out", linked_list_clone(linkedLists["a"], nodes),
                  [Op("linked_list_clone") EXCEPT !.pre = linkedLists["a"],
                                                 !.preHeap = nodes])

\* appends to a container, then one clone of it
NextClone ==
    \/ ~Cloned /\ kind = "list" /\ ListAppend("a", SortValues, MaxElems)
    \/ ~Cloned /\ kind = "linked_list"
          /\ LinkedAppend("a", SortValues, MaxElems)
    \/ ~Cloned /\ ListClone
    \/ ~Cloned /\ LinkedClone

SpecClone == InitJoin /\ [][NextClone]_vars

---------------------------------------------------------------------------
(* The caller program inserting into a container *)

Inserted == call.op \in {"list_insert", "linked_list_insert"}

\* appends, on lists until no memory is left, then one insert at any index
NextInsert ==
    \/ \E hd \in {"a", "b"} :
          /\ ~Inserted /\ kind = "list"
          /\ ListAppend(hd, StructValues, MaxAddr)
    \/ ~Inserted /\ kind = "linked_list"
          /\ LinkedAppend("a", StructValues, MaxElems)
    \/ ~Inserted /\ kind = "list"
          /\ ListInsert("a", Indexes, SortValues, MaxAddr + 1)
    \/ ~Inserted /\ kind = "linked_list"
          /\ LinkedInsert("a", LinkedIndexes, SortValues, MaxElems + 1)

SpecInsert == InitJoin /\ [][NextInsert]_vars

---------------------------------------------------------------------------
(* The caller program setting and getting elements *)

\* list_set(a, index, value, size); the call record keeps the list and the
\* heap as they were
ListSet(hd, I, V) ==
    /\ kind = "list" /\ CanMalloc(MaxAddr)
    /\ \E index \in I, value \in V :
          ListCall(hd, list_set(lists[hd], heap, index, value, Len(value)),
                   [OpAt("list_set", index) EXCEPT !.value = value,
                                                   !.size = Len(value),
                                                   !.pre = lists[hd],
                                                   !.preHeap = heap])
    /\ UNCHANGED held

\* list_get(a, &element, index); the element is the caller's
ListGet(hd, I) ==
    /\ kind = "list" /\ CanMalloc(MaxAddr) /\ CanHold
    /\ \E index \in I :
          LET r == list_get(lists[hd], heap, index)
          IN  /\ ListCall(hd, r, [OpAt("list_get", index) EXCEPT
                                     !.out = r.out])
              /\ held' = IF r.out # NULL THEN held \cup {r.out} ELSE held

LinkedSet(hd, I, V) ==
    /\ kind = "linked_list"
    /\ \E index \in I, value \in V :
          LinkedCall(hd, linked_list_set(linkedLists[hd], nodes, index, value,
                                         Len(value)),
                     [OpAt("linked_list_set", index) EXCEPT
                         !.value = value, !.size = Len(value),
                         !.pre = linkedLists[hd], !.preHeap = nodes])

LinkedGet(hd, I) ==
    /\ kind = "linked_list" /\ CanMalloc(MaxAddr) /\ CanHold
    /\ status = "running"
    /\ \E index \in I :
          LET r == linked_list_get(linkedLists[hd], nodes, heap, index)
          IN  /\ status' \in StatusAfter(r.ub)
              /\ heap' = r.h
              /\ held' = IF r.out # NULL THEN held \cup {r.out} ELSE held
              /\ call' = [OpAt("linked_list_get", index) EXCEPT
                             !.handle = hd, !.out = r.out,
                             !.result = r.result, !.ub = r.ub]
    /\ UNCHANGED <<kind, lists, iterator, linkedVars>>

\* the values the caller sets: one or two bytes
SetValues == SortValues \cup {<<0, 1>>}
\* list_append(list, NULL, 1) stores an element of size 1 without a value
AppendValues == StructValues \cup {NULLV}

\* appends, with or without a value, and sets and gets at any index
NextSet ==
    \/ kind = "list" /\ ListAppend("a", AppendValues, MaxElems - 1)
    \/ kind = "linked_list" /\ LinkedRoom("a", MaxElems - 1)
          /\ LinkedAppend("a", AppendValues, MaxNodes)
    \/ ListSet("a", Indexes, SetValues)
    \/ ListGet("a", Indexes)
    \/ LinkedSet("a", LinkedIndexes, SetValues)
    \/ LinkedGet("a", LinkedIndexes)
    \/ kind = "list" /\ ListElementFree
    \/ kind = "linked_list" /\ LinkedElementFree

SpecSet == InitJoin /\ [][NextSet]_vars

---------------------------------------------------------------------------
(* The caller program filling a new list *)

\* the capacities the caller asks list_create for
CreateCapacities == -1..2

\* the state after list_create(&a, capacity, NULL, NULL); the call record
\* keeps the capacity asked for
InitCreate ==
    /\ heap = EmptyHeap
    /\ held = {}
    /\ iterator = NoIterator
    /\ nodes = EmptyNodes
    /\ linkedIterator = NoLinkedIterator
    /\ status = "running"
    /\ kind = "list"
    /\ linkedLists = NoLinkedLists
    /\ \E capacity \in CreateCapacities :
          /\ lists = OnlyA(capacity)
          /\ call = [OpAt("list_create", capacity) EXCEPT
                        !.handle = "a", !.result = LIST_SUCCESS]

\* nothing but appends
NextAppend ==
    ListAppend("a", SortValues, MaxElems)

SpecAppend == InitCreate /\ [][NextAppend]_vars

---------------------------------------------------------------------------
(* The caller program filling a list up *)

\* the heap has room for the elements list_fill creates
CanFill(hd) ==
    Cardinality(FreeAddrs(heap)) >= lists[hd].capacity - lists[hd].size

ListFill(hd, V) ==
    /\ CanFill(hd)
    /\ \E value \in V :
          ListCall(hd, list_fill(lists[hd], heap, value, Len(value)),
                   [Op("list_fill") EXCEPT !.value = value,
                                           !.size = Len(value)])
    /\ UNCHANGED held

Filled == call.op = "list_fill"

\* appends, inserts, removals and resizes with indices of the list, then
\* one fill
NextFill ==
    \/ ~Filled /\ ListAppend("a", StructValues, MaxElems)
    \/ ~Filled /\ ListInsert("a", 0..lists["a"].size, StructValues, MaxElems)
    \/ ~Filled /\ ListRemove("a", Inside("a"))
    \/ ~Filled /\ ListResize("a")
    \/ ~Filled /\ ListFill("a", SortValues)

SpecFill == InitList /\ [][NextFill]_vars

---------------------------------------------------------------------------
(* The caller program sorting with a function of its own *)

SortingFunctions == {"default_sort"} \cup CustomSortingFunctions

\* the state after list_create(&a, 2, NULL, f) or
\* linked_list_create(&a, NULL, f), f being NULL or a function of the caller
InitSortWith ==
    /\ InitEmpty
    /\ kind \in {"list", "linked_list"}
    /\ \E f \in SortingFunctions :
          IF kind = "list"
          THEN /\ linkedLists = NoLinkedLists
               /\ lists = [OnlyA(2) EXCEPT !["a"].sortingFunction = f]
          ELSE /\ lists = NoLists
               /\ linkedLists = [OnlyLinkedA EXCEPT !["a"].sortingFunction = f]

\* the call record keeps the calls of the sorting function
ListSortWith(hd) ==
    /\ kind = "list"
    /\ \E ascending \in BOOLEAN :
          LET r == list_sort(lists[hd], heap, ascending)
          IN  ListCall(hd, r, [Op("list_sort") EXCEPT !.flag = ascending,
                                                     !.log = r.invoked])
    /\ UNCHANGED held

LinkedSortWith(hd) ==
    /\ kind = "linked_list"
    /\ \E ascending \in BOOLEAN :
          LET r == linked_list_sort(linkedLists[hd], nodes, ascending)
          IN  LinkedCall(hd, r, [Op("linked_list_sort") EXCEPT
                                    !.flag = ascending, !.log = r.invoked])

NextSortWith ==
    \/ kind = "list" /\ ListAppend("a", SortValues, MaxElems)
    \/ kind = "linked_list" /\ LinkedRoom("a", MaxElems)
          /\ LinkedAppend("a", SortValues, MaxNodes)
    \/ ListSortWith("a")
    \/ LinkedSortWith("a")

SpecSortWith == InitSortWith /\ [][NextSortWith]_vars

---------------------------------------------------------------------------
(* quicksort's calls of partition *)

\* one call partition(list, low, high, ascending) on a range of two or more
\* elements of the list; the call record keeps the list as it was and the
\* index returned
ListPartition(hd) ==
    /\ \E low, high \in Inside(hd), ascending \in BOOLEAN :
          /\ low < high
          /\ LET part == partition(lists[hd], heap, low, high, ascending)
             IN  ListCall(hd, [l |-> part.l, h |-> heap,
                               result |-> LIST_SUCCESS, ub |-> NoUB],
                          [OpAt("partition", low) EXCEPT
                              !.index2 = high, !.flag = ascending,
                              !.out = part.p, !.pre = lists[hd]])
    /\ UNCHANGED held

NextPartition ==
    \/ /\ lists["a"].size < lists["a"].capacity
       /\ ListAppend("a", SortValues, MaxAddr)
    \/ ListPartition("a")

SpecPartition == InitSort /\ [][NextPartition]_vars

---------------------------------------------------------------------------
(* merge's decision on what the equality function returns *)

\* the values an equality function returns: a few beyond the one byte
\* either way
MaxComparison == 260
ComparisonResults == (0 - MaxComparison)..MaxComparison

\* one decision of merge: the call record keeps r, the direction and the
\* half the node is taken from
MergeDecision ==
    /\ status = "running"
    /\ \E r \in ComparisonResults, ascending \in BOOLEAN :
          call' = [OpAt("merge", r) EXCEPT
                      !.flag = ascending,
                      !.index2 = IF takeFromFirstHalf(r, ascending)
                                 THEN 1 ELSE 2]
    /\ UNCHANGED <<kind, status, listVars, linkedVars>>

NextMerge ==
    MergeDecision

SpecMerge == InitLinkedSort /\ [][NextMerge]_vars

---------------------------------------------------------------------------
(* The caller program placing elements *)

\* appends, prepends and inserts at any index, on a list that has to grow
\* and on a linked list
NextPlace ==
    \/ kind = "list" /\ ListAppend("a", SortValues, MaxElems)
    \/ kind = "list" /\ ListPrepend("a", SortValues, MaxElems)
    \/ kind = "list" /\ ListInsert("a", Indexes, SortValues, MaxElems)
    \/ kind = "linked_list" /\ LinkedRoom("a", MaxElems)
          /\ LinkedAppend("a", SortValues, MaxNodes)
    \/ kind = "linked_list" /\ LinkedPrepend("a", SortValues, MaxElems)
    \/ kind = "linked_list"
          /\ LinkedInsert("a", LinkedIndexes, SortValues, MaxElems)

SpecPlace == InitJoin /\ [][NextPlace]_vars

---------------------------------------------------------------------------
(* The caller program reversing a container *)

ListReverse(hd) ==
    /\ kind = "list"
    /\ ListCall(hd, list_reverse(lists[hd], heap), Op("list_reverse"))
    /\ UNCHANGED held

\* appends, and reversals at any time, of the empty container as well
NextReverse ==
    \/ kind = "list" /\ ListAppend("a", SortValues, MaxElems)
    \/ kind = "linked_list" /\ LinkedRoom("a", MaxElems)
          /\ LinkedAppend("a", SortValues, MaxNodes)
    \/ ListReverse("a")
    \/ kind = "linked_list" /\ LinkedReverse("a")

SpecReverse == InitJoin /\ [][NextReverse]_vars

---------------------------------------------------------------------------
(* The caller program removing elements *)

\* appends, then removals and pops at any index, valid or not
NextRemove ==
    \/ ListAppend("a", StructValues, MaxElems)
    \/ ListRemove("a", Indexes)
    \/ ListPop("a", Indexes, MaxElems)

SpecRemove == InitList /\ [][NextRemove]_vars

---------------------------------------------------------------------------
(* The caller program indexing a linked list *)

\* appends, then get, set, remove and pop at any index, on the empty list
\* as well
PairValues == {<<0>>, <<1>>}

NextLinkedIndex ==
    \/ LinkedRoom("a", MaxElems) /\ LinkedAppend("a", PairValues, MaxNodes)
    \/ LinkedGet("a", LinkedIndexes)
    \/ LinkedSet("a", LinkedIndexes, StructValues)
    \/ LinkedRemove("a", LinkedIndexes)
    \/ LinkedPop("a", LinkedIndexes)

SpecLinkedIndex == InitLinkedSort /\ [][NextLinkedIndex]_vars

---------------------------------------------------------------------------
(* The caller program prepending when no memory is left *)

\* linked_list_prepend whether or not a node can be allocated
LinkedPrependFull(hd, V) ==
    /\ kind = "linked_list"
    /\ \E value \in V :
          LinkedCall(hd, linked_list_prepend(linkedLists[hd], nodes, value,
                                             Len(value)),
                     [Op("linked_list_prepend") EXCEPT
                         !.value = value, !.size = Len(value)])

\* appends until the heap is full, and prepends at any time
NextPrepend ==
    \/ \E hd \in {"a", "b"} :
          kind = "list" /\ ListAppend(hd, PairValues, MaxAddr)
    \/ kind = "linked_list" /\ LinkedAppend("a", PairValues, MaxNodes)
    \/ kind = "list" /\ ListPrepend("a", PairValues, MaxAddr + 1)
    \/ LinkedPrependFull("a", PairValues)

SpecPrepend == InitJoin /\ [][NextPrepend]_vars

---------------------------------------------------------------------------
(* The caller program sorting a clone or a joined container *)

Derived == lists["out"] # NoList \/ linkedLists["out"] # NoLinkedList

\* appends, one clone or join into out, then sorts of out
NextDerived ==
    \/ \E hd \in {"a", "b"} :
          /\ ~Derived /\ kind = "list"
          /\ ListAppend(hd, PairValues, MaxAddr \div 2)
    \/ \E hd \in {"a", "b"} :
          /\ ~Derived /\ kind = "linked_list"
          /\ LinkedAppend(hd, PairValues, MaxNodes \div 2)
    \/ ~Derived /\ ListClone
    \/ ~Derived /\ LinkedClone
    \/ ~Derived /\ ListJoin
    \/ ~Derived /\ LinkedJoin
    \/ Derived /\ kind = "list" /\ ListSort("out")
    \/ Derived /\ kind = "linked_list" /\ LinkedSort("out")

SpecDerived == InitJoin /\ [][NextDerived]_vars

---------------------------------------------------------------------------
(* The caller program releasing the elements it was handed *)

\* list_element_free(&element) with element == NULL
ListElementFreeNone ==
    /\ kind = "list" /\ status = "running"
    /\ LET f == list_element_free(heap, NULL)
       IN  /\ heap' = f.h
           /\ call' = [OpAt("list_element_free", NULL) EXCEPT
                          !.result = f.result, !.ub = f.ub]
           /\ status' \in StatusAfter(f.ub)
    /\ UNCHANGED <<kind, lists, held, iterator, linkedVars>>

\* linked_list_element_free(&element) with element == NULL
LinkedElementFreeNone ==
    /\ kind = "linked_list" /\ status = "running"
    /\ LET f == linked_list_element_free(heap, NULL)
       IN  /\ heap' = f.h
           /\ call' = [OpAt("linked_list_element_free", NULL) EXCEPT
                          !.result = f.result, !.ub = f.ub]
           /\ status' \in StatusAfter(f.ub)
    /\ UNCHANGED <<kind, lists, held, iterator, linkedVars>>

\* appends, pops that hand an element to the caller, and the caller
\* releasing it, or calling with a handle that is NULL already
NextElementFree ==
    \/ kind = "list" /\ ListAppend("a", PairValues, MaxElems)
    \/ kind = "linked_list" /\ LinkedRoom("a", MaxElems)
          /\ LinkedAppend("a", PairValues, MaxNodes)
    \/ kind = "list" /\ ListPop("a", Inside("a"), MaxAddr)
    \/ kind = "linked_list"
          /\ LinkedPop("a", 0..(linkedLists["a"].size - 1))
    \/ kind = "list" /\ ListElementFree
    \/ kind = "linked_list" /\ LinkedElementFree
    \/ ListElementFreeNone
    \/ LinkedElementFreeNone

SpecElementFree == InitJoin /\ [][NextElementFree]_vars

---------------------------------------------------------------------------
(* The default sorts, one call of partition, merge_split or merge at a time *)

\* call.log holds the calls of quicksort or merge_sort that are still to
\* run, the next one first; call.size counts the steps taken
Sorting == call.op \in {"quicksort", "merge_sort"}
Sorted == call.op = "default_sort" /\ call.result = LIST_SUCCESS

InitTerminate ==
    /\ InitEmpty
    /\ kind \in {"list", "linked_list"}
    /\ IF kind = "list"
       THEN /\ linkedLists = NoLinkedLists
            /\ \E f \in {"default_equals"} \cup CustomEqualityFunctions :
                  lists = [OnlyA(MaxCap) EXCEPT !["a"].equalityFunction = f]
       ELSE /\ lists = NoLists
            /\ linkedLists = OnlyLinkedA

\* default_sort calls quicksort(list, 0, list->size - 1, ascending)
QuicksortEnter(hd) ==
    /\ kind = "list" /\ status = "running" /\ ~Sorting
    /\ \E ascending \in BOOLEAN :
          call' = [Op("quicksort") EXCEPT
                      !.handle = hd, !.flag = ascending,
                      !.log = <<<<0, lists[hd].size - 1>>>>,
                      !.pre = lists[hd]]
    /\ UNCHANGED <<kind, listVars, linkedVars, status>>

\* the two calls quicksort makes after partition returned p
QuicksortFrames_upto_p(low, high, p) == <<<<low, p>>, <<p + 1, high>>>>

QuicksortFrames(low, high, p) == <<<<low, p - 1>>, <<p + 1, high>>>>

\* one call quicksort(list, low, high, ascending) up to its recursive
\* calls; a call with low >= high returns at once
QuicksortStep ==
    /\ call.op = "quicksort" /\ call.log # <<>>
    /\ lists' =
          IF Head(call.log)[1] < Head(call.log)[2]
          THEN [lists EXCEPT ![call.handle] =
                   partition(lists[call.handle], heap, Head(call.log)[1],
                             Head(call.log)[2], call.flag).l]
          ELSE lists
    /\ call' =
          IF Head(call.log)[1] < Head(call.log)[2]
          THEN [call EXCEPT
                   !.log = QuicksortFrames(
                               Head(call.log)[1], Head(call.log)[2],
                               partition(lists[call.handle], heap,
                                         Head(call.log)[1], Head(call.log)[2],
                                         call.flag).p) \o Tail(call.log),
                   !.out = partition(lists[call.handle], heap,
                                     Head(call.log)[1], Head(call.log)[2],
                                     call.flag).p,
                   !.size = call.size + 1]
          ELSE [call EXCEPT !.log = Tail(call.log), !.size = call.size + 1]
    /\ UNCHANGED <<kind, heap, held, iterator, linkedVars, status>>

\* quicksort has returned to default_sort, which returns LIST_SUCCESS
QuicksortReturn ==
    /\ call.op = "quicksort" /\ call.log = <<>>
    /\ call' = [call EXCEPT !.op = "default_sort", !.result = LIST_SUCCESS]
    /\ UNCHANGED <<kind, listVars, linkedVars, status>>

\* default_sort calls merge_sort(linkedList->head, ...); call.pre holds
\* the head and tail each finished call of merge_sort returned, the last
\* one first
MergeSortEnter(hd) ==
    /\ kind = "linked_list" /\ status = "running" /\ ~Sorting
    /\ \E ascending \in BOOLEAN :
          call' = [Op("merge_sort") EXCEPT
                      !.handle = hd, !.flag = ascending,
                      !.log = <<<<"merge_sort", linkedLists[hd].head>>>>,
                      !.pre = <<>>,
                      !.preHeap = nodes]
    /\ UNCHANGED <<kind, listVars, linkedVars, status>>

\* one call of merge_sort up to its recursive calls, or the call of merge
\* that ends it
MergeSortStep ==
    /\ call.op = "merge_sort" /\ call.log # <<>>
    /\ LET head == Head(call.log)[2]
       IN  IF Head(call.log)[1] = "merge_sort"
           THEN IF head = NULL \/ nodes[head].next = NULL
                THEN /\ nodes' = nodes
                     /\ call' = [call EXCEPT
                                    !.log = Tail(call.log),
                                    !.pre = <<<<head, head>>>> \o call.pre,
                                    !.size = call.size + 1]
                ELSE /\ nodes' = merge_split(nodes, head).nd
                     /\ call' = [call EXCEPT
                                    !.log =
                                       <<<<"merge_sort",
                                           merge_split(nodes, head).firstHalf>>,
                                         <<"merge_sort",
                                           merge_split(nodes, head).secondHalf>>,
                                         <<"merge", NULL>>>> \o Tail(call.log),
                                    !.size = call.size + 1]
           ELSE LET firstHalf == call.pre[2][1]
                    secondHalf == call.pre[1][1]
                    merged == merge(nodes, firstHalf, secondHalf, call.flag)
                IN  /\ nodes' = merged.nd
                    /\ call' = [call EXCEPT
                                   !.log = Tail(call.log),
                                   !.pre = <<<<merged.head, merged.tail>>>>
                                              \o Tail(Tail(call.pre)),
                                   !.size = call.size + 1]
    /\ UNCHANGED <<kind, listVars, linkedLists, linkedIterator, status>>

\* merge_sort has returned to default_sort, which sets head and tail and
\* returns LINKED_LIST_SUCCESS
MergeSortReturn ==
    /\ call.op = "merge_sort" /\ call.log = <<>>
    /\ linkedLists' = [linkedLists EXCEPT
                          ![call.handle].head = call.pre[1][1],
                          ![call.handle].tail = call.pre[1][2]]
    /\ call' = [call EXCEPT !.op = "default_sort",
                            !.result = LINKED_LIST_SUCCESS]
    /\ UNCHANGED <<kind, listVars, nodes, linkedIterator, status>>

\* a call of quicksort is still to run: QuicksortStep is enabled
Pending == call.op = "quicksort" /\ call.log # <<>>

\* holds in every state of SpecTerminate
PendingEnablesStep == Pending <=> ENABLED <<QuicksortStep>>_vars

\* appends between the sorts, and the sorts step by step
NextTerminate ==
    \/ ~Sorting /\ kind = "list" /\ ListAppend("a", SortValues, MaxElems)
    \/ ~Sorting /\ kind = "linked_list" /\ LinkedRoom("a", MaxElems)
          /\ LinkedAppend("a", SortValues, MaxNodes)
    \/ QuicksortEnter("a")
    \/ QuicksortStep
    \/ QuicksortReturn
    \/ MergeSortEnter("a")
    \/ MergeSortStep
    \/ MergeSortReturn

\* the program is sequential: a sort that was called goes on running. The
\* last conjunct is WF_vars(QuicksortStep) with Pending for the states
\* that enable QuicksortStep.
SpecTerminate ==
    /\ InitTerminate /\ [][NextTerminate]_vars
    /\ WF_vars(QuicksortReturn)
    /\ WF_vars(MergeSortStep)
    /\ WF_vars(MergeSortReturn)
    /\ ([]<>(~Pending) \/ []<><<QuicksortStep>>_vars)

---------------------------------------------------------------------------
(* The caller program searching a container *)

\* a call that reads container hd and changes nothing: r is its outcome,
\* r.index what it wrote to *indexOut
Query(r, c) ==
    /\ status = "running"
    /\ status' \in StatusAfter(r.ub)
    /\ call' = [c EXCEPT !.handle = "a", !.out = r.index,
                         !.result = r.result, !.ub = r.ub]
    /\ UNCHANGED <<kind, listVars, linkedVars>>

ListFindLast(hd, I, V) ==
    /\ kind = "list"
    /\ \E startIndex \in I, value \in V :
          Query(list_find_last(lists[hd], heap, startIndex, value, Len(value)),
                [OpAt("list_find_last", startIndex) EXCEPT
                    !.value = value, !.size = Len(value),
                    !.log = list_find_last(lists[hd], heap, startIndex, value,
                                           Len(value)).compared])

ListFindFirst(hd, I, V) ==
    /\ kind = "list"
    /\ \E startIndex \in I, value \in V :
          Query(list_find_first(lists[hd], heap, startIndex, value,
                                Len(value)),
                [OpAt("list_find_first", startIndex) EXCEPT
                    !.value = value, !.size = Len(value),
                    !.log = list_find_first(lists[hd], heap, startIndex, value,
                                            Len(value)).compared])

ListIncludes(hd, V) ==
    /\ kind = "list"
    /\ \E value \in V :
          Query(list_includes(lists[hd], heap, value, Len(value)),
                [Op("list_includes") EXCEPT
                    !.value = value, !.size = Len(value),
                    !.log = list_includes(lists[hd], heap, value,
                                          Len(value)).compared])

LinkedFindLast(hd, I, V) ==
    /\ kind = "linked_list"
    /\ \E startFromIndex \in I, value \in V :
          Query(linked_list_find_last(linkedLists[hd], nodes, startFromIndex,
                                      value, Len(value)),
                [OpAt("linked_list_find_last", startFromIndex) EXCEPT
                    !.value = value, !.size = Len(value)])

\* appends of one byte each, and searches for one byte or two from any index
NextFind ==
    \/ kind = "list" /\ ListAppend("a", SortValues, MaxElems)
    \/ kind = "linked_list" /\ LinkedRoom("a", MaxElems)
          /\ LinkedAppend("a", SortValues, MaxNodes)
    \/ ListFindLast("a", Indexes, SetValues)
    \/ LinkedFindLast("a", LinkedIndexes, SetValues)

SpecFind == InitJoin /\ [][NextFind]_vars

\* elements and queries of one byte and of two: the first byte of the long
\* one is the short one
SearchValues == {<<0>>, <<1>>, <<0, 1>>}

\* appends of either length, and the three searches of list.c
NextSearch ==
    \/ ListAppend("a", SearchValues, MaxElems)
    \/ ListIncludes("a", SearchValues)
    \/ ListFindFirst("a", Indexes, SearchValues)
    \/ ListFindLast("a", Indexes, SearchValues)

SpecSearch == InitList /\ [][NextSearch]_vars

---------------------------------------------------------------------------
(* The caller program iterating a container *)

\* what one call of next() showed the caller
Shown(result, index, element) ==
    [result |-> result, index |-> index, element |-> element]

IteratorMade == iterator.made \/ linkedIterator.made

ListIteratorCreate ==
    /\ status = "running" /\ kind = "list" /\ ~iterator.made
    /\ iterator' = list_iterator_create("a")
    /\ call' = [Op("list_iterator_create") EXCEPT !.handle = "a",
                                                  !.result = LIST_SUCCESS]
    /\ UNCHANGED <<kind, lists, heap, held, linkedVars, status>>

ListIteratorNext ==
    /\ status = "running" /\ iterator.made
    /\ Len(call.log) < MaxCalls
    /\ LET r == list_iterator_next(iterator, lists[iterator.list])
       IN  /\ iterator' = r.it
           /\ call' = [Op("list_iterator_next") EXCEPT
                          !.handle = iterator.list,
                          !.result = r.result,
                          !.log = Append(call.log,
                                         Shown(r.result, r.it.index,
                                               r.it.element))]
    /\ UNCHANGED <<kind, lists, heap, held, linkedVars, status>>

ListIteratorRewind ==
    /\ status = "running" /\ iterator.made
    /\ LET r == list_iterator_rewind(iterator)
       IN  /\ iterator' = r.it
           /\ call' = [Op("list_iterator_rewind") EXCEPT
                          !.handle = iterator.list, !.result = r.result]
    /\ UNCHANGED <<kind, lists, heap, held, linkedVars, status>>

LinkedIteratorCreate ==
    /\ status = "running" /\ kind = "linked_list" /\ ~linkedIterator.made
    /\ linkedIterator' = linked_list_iterator_create("a")
    /\ call' = [Op("linked_list_iterator_create") EXCEPT
                   !.handle = "a", !.result = LINKED_LIST_SUCCESS]
    /\ UNCHANGED <<kind, listVars, linkedLists, nodes, status>>

LinkedIteratorNext ==
    /\ status = "running" /\ linkedIterator.made
    /\ Len(call.log) < MaxCalls
    /\ LET r == linked_list_iterator_next(linkedIterator,
                                          linkedLists[linkedIterator.list],
                                          nodes)
       IN  /\ linkedIterator' = r.it
           /\ call' = [Op("linked_list_iterator_next") EXCEPT
                          !.handle = linkedIterator.list,
                          !.result = r.result,
                          !.log = Append(call.log,
                                         Shown(r.result, r.it.index,
                                               r.it.node))]
    /\ UNCHANGED <<kind, listVars, linkedLists, nodes, status>>

LinkedIteratorRewind ==
    /\ status = "running" /\ linkedIterator.made
    /\ LET r == linked_list_iterator_rewind(linkedIterator)
       IN  /\ linkedIterator' = r.it
           /\ call' = [Op("linked_list_iterator_rewind") EXCEPT
                          !.handle = linkedIterator.list, !.result = r.result]
    /\ UNCHANGED <<kind, listVars, linkedLists, nodes, status>>

\* one container of either kind, created empty
InitIter ==
    /\ InitEmpty
    /\ kind \in {"list", "linked_list"}
    /\ IF kind = "list"
       THEN /\ linkedLists = NoLinkedLists
            /\ \E capacity \in 1..2 : lists = OnlyA(capacity)
       ELSE /\ lists = NoLists
            /\ linkedLists = OnlyLinkedA

\* the container is built, then only iterated: the log of next() starts at
\* the iterator's creation and again at each rewind
NextIter ==
    \/ /\ ~IteratorMade /\ kind = "list"
       /\ ListAppend("a", SortValues, MaxElems)
    \/ /\ ~IteratorMade /\ kind = "linked_list"
       /\ LinkedAppend("a", SortValues, MaxElems)
    \/ ListIteratorCreate
    \/ ListIteratorNext
    \/ ListIteratorRewind
    \/ LinkedIteratorCreate
    \/ LinkedIteratorNext
    \/ LinkedIteratorRewind

SpecIter == InitIter /\ [][NextIter]_vars

---------------------------------------------------------------------------
(* Claims *)

A == lists["a"]
Returned(op) == call.op = op /\ status = "running"

\* the comparison of two stored elements by the list's equality function
CompareElems(l, h, p, q) ==
    equalityFunction(l, h[p].value, h[q].value, h[p].size)

IndexOf(l, p) == CHOOSE i \in 0..(l.size - 1) : l.items[i] = p

\* C1: after list_sort with the default sort function on a list built by
\* appends, neighbouring elements are in order under the equality function:
\* non-decreasing when ascending, non-increasing when descending.
C1_ListSortOrdered ==
    Returned("list_sort") =>
        \A i \in 0..(A.size - 2) :
            LET c == CompareElems(A, heap, A.items[i], A.items[i + 1])
            IN  IF call.flag THEN c <= 0 ELSE c >= 0

\* C2: whatever calls were made, 0 <= count <= capacity, every slot below
\* count holds a live element, and count is the number of live elements an
\* iteration over the slots below count yields.
C2_ListInvariant ==
    status = "running" =>
        /\ 0 <= A.size /\ A.size <= A.capacity
        /\ \A i \in 0..(A.size - 1) :
              A.items[i] \in Addr /\ heap[A.items[i]].live
        /\ Cardinality({A.items[i] : i \in 0..(A.size - 1)}) = A.size

\* C6: list_resize(list, c) with c >= 1, after calls with indices inside the
\* list, returns Success with capacity c and count min(old count, c); every
\* element below count is the one that was there and is still live, and only
\* elements that were at indices >= c have been released.
C6_ResizeKeepsPrefix ==
    (Returned("list_resize") /\ call.index >= 1) =>
        /\ call.result = LIST_SUCCESS
        /\ A.capacity = call.index
        /\ A.size = Min({call.pre.size, call.index})
        /\ \A i \in 0..(A.size - 1) :
              /\ A.items[i] = call.pre.items[i]
              /\ A.items[i] \in Addr /\ heap[A.items[i]].live
        /\ \A a \in Addr :
              (call.preHeap[a].live /\ ~heap[a].live) =>
                  /\ \E i \in call.index..(call.pre.size - 1) :
                        call.pre.items[i] = a
                  /\ \A i \in 0..(A.size - 1) : call.pre.items[i] # a

\* the elements before the sort are the elements after it, each once
SamePointers(before, after) ==
    /\ after.size = before.size
    /\ {after.items[i] : i \in 0..(after.size - 1)}
          = {before.items[i] : i \in 0..(before.size - 1)}
    /\ Cardinality({after.items[i] : i \in 0..(after.size - 1)}) = after.size

\* two elements that compare equal are in the order they were in before
KeepsEqualOrder(before, after, h) ==
    \A i, j \in 0..(before.size - 1) :
        (i < j /\ CompareElems(before, h, before.items[i], before.items[j]) = 0)
            => IndexOf(after, before.items[i]) < IndexOf(after, before.items[j])

\* C9 as stated: list_sort with the default sort function keeps elements
\* that compare equal in the order they had before the sort.
C9_ListSortStable ==
    Returned("list_sort") =>
        (SamePointers(call.pre, A) => KeepsEqualOrder(call.pre, A, heap))

\* C9 amended: list_sort with the default sort function only permutes the
\* stored elements, and elements that compare equal keep their order when
\* the list has at most two elements.
C9_ListSortPermutes ==
    Returned("list_sort") =>
        /\ SamePointers(call.pre, A)
        /\ call.pre.size <= 2 => KeepsEqualOrder(call.pre, A, heap)

\* a sort that returned on three or more elements, two of them equal
C9_Witness ==
    /\ Returned("list_sort")
    /\ A.size >= 3
    /\ \E i, j \in 0..(A.size - 1) :
          i # j /\ CompareElems(A, heap, A.items[i], A.items[j]) = 0

LA == linkedLists["a"]

\* the comparison of the elements of two nodes by the default equality function
CompareNodes(nd, p, q) == default_equals(nd[p].value, nd[q].value, nd[p].size)

Position(seq, x) == CHOOSE i \in 1..Len(seq) : seq[i] = x

\* C8: after linked_list_sort with the default sort function on a list
\* built by appends (comparator results in {-1, 0, 1} or any other value an
\* int8_t holds), iteration order is non-decreasing when ascending and
\* non-increasing when descending.
C8_LinkedSortOrdered ==
    Returned("linked_list_sort") =>
        LET chain == NodesOf(LA, nodes)
        IN  /\ Len(chain) = LA.size
            /\ \A i \in 1..(Len(chain) - 1) :
                  LET c == CompareNodes(nodes, chain[i], chain[i + 1])
                  IN  IF call.flag THEN c <= 0 ELSE c >= 0

\* a sort that returned on a list that was out of order
C8_Witness ==
    /\ Returned("linked_list_sort")
    /\ LA.size >= 3
    /\ call.log # NodesOf(LA, nodes)

Count == IF kind = "list" THEN A.size ELSE LA.size
ElementAt(i) ==
    IF kind = "list" THEN A.items[i] ELSE NodeAfter(nodes, LA.head, i)
Rewound ==
    IF kind = "list" THEN iterator.index = -1 /\ iterator.element = NULL
    ELSE linkedIterator.index = -1 /\ linkedIterator.node = NULL
Iterated == call.op \in {"list_iterator_next", "linked_list_iterator_next"}

\* C3: on a container of n >= 1 elements that is not changed meanwhile,
\* the calls of next() from the Rewound state go round: the k-th call of a
\* round of n + 1 returns Success and shows index k - 1 and the element
\* there, for k = 1..n; the (n + 1)-th returns IndexOutOfRange and leaves
\* the iterator Rewound; the call after it shows index 0 again.
C3_IteratorCycle ==
    (Iterated /\ Count >= 1) =>
        /\ \A k \in 1..Len(call.log) :
              LET i == (k - 1) % (Count + 1)
              IN  IF i < Count
                  THEN call.log[k] = Shown(LIST_SUCCESS, i, ElementAt(i))
                  ELSE call.log[k]
                          = Shown(LIST_INDEX_OUT_OF_RANGE_ERROR, -1, NULL)
        /\ (Len(call.log) % (Count + 1) = 0) => Rewound

\* a second round has begun on a container of two or more elements
C3_Witness ==
    /\ Iterated /\ Count >= 2
    /\ Len(call.log) = Count + 2
    /\ call.log[Count + 1].result = LIST_INDEX_OUT_OF_RANGE_ERROR
    /\ call.log[Count + 2].index = 0

\* C4: on a container with count 0 the first next() of a Rewound iterator
\* returns IndexOutOfRange and leaves the iterator Rewound, so that a loop
\* while (next() == Success) runs zero times.
C4_IteratorOnEmpty ==
    (Iterated /\ Count = 0) =>
        /\ call.log[1].result = LIST_INDEX_OUT_OF_RANGE_ERROR
        /\ (Len(call.log) = 1 => Rewound)

\* C5: linked_list_resize(list, n) on a list of m elements returns Success
\* with count n and exactly n nodes reachable from head: the first
\* min(m, n) are the former ones in their order, the others hold no value;
\* tail is the last of them and has no successor; head and tail are NULL
\* when n is 0.
C5_LinkedResize ==
    call.op = "linked_list_resize" =>
        LET chain == NodesOf(LA, nodes)
            n == call.index
            m == call.pre.size
        IN  /\ status = "running"
            /\ call.result = LINKED_LIST_SUCCESS
            /\ LA.size = n
            /\ Len(chain) = n
            /\ \A i \in 1..n :
                  IF i <= m
                  THEN /\ chain[i] = call.log[i]
                       /\ nodes[chain[i]].value = call.preHeap[chain[i]].value
                  ELSE nodes[chain[i]].value = NULLV
            /\ n >= 1 => LA.tail = chain[n] /\ nodes[LA.tail].next = NULL
            /\ n = 0 => LA.head = NULL /\ LA.tail = NULL

\* the values stored in a container, in iteration order
ListValues(l, h) == [i \in 1..l.size |-> h[l.items[i - 1]].value]
LinkedValues(ll, nd) ==
    LET chain == NodesOf(ll, nd)
    IN  [i \in 1..Len(chain) |-> nd[chain[i]].value]

\* C7: join(a, b) of any two containers, empty ones included, returns
\* Success with a new container of count a.count + b.count that holds a's
\* values in order and then b's; a and b are as they were.
C7_Join ==
    Joined =>
        /\ status = "running"
        /\ call.result = LIST_SUCCESS
        /\ IF kind = "list"
           THEN /\ lists["out"].size = call.pre.a.size + call.pre.b.size
                /\ ListValues(lists["out"], heap)
                      = ListValues(call.pre.a, call.preHeap)
                           \o ListValues(call.pre.b, call.preHeap)
                /\ lists["a"] = call.pre.a /\ lists["b"] = call.pre.b
                /\ ListValues(lists["a"], heap)
                      = ListValues(call.pre.a, call.preHeap)
                /\ ListValues(lists["b"], heap)
                      = ListValues(call.pre.b, call.preHeap)
           ELSE /\ linkedLists["out"].size = call.pre.a.size + call.pre.b.size
                /\ LinkedValues(linkedLists["out"], nodes)
                      = LinkedValues(call.pre.a, call.preHeap)
                           \o LinkedValues(call.pre.b, call.preHeap)
                /\ linkedLists["a"] = call.pre.a
                /\ linkedLists["b"] = call.pre.b
                /\ LinkedValues(linkedLists["a"], nodes)
                      = LinkedValues(call.pre.a, call.preHeap)
                /\ LinkedValues(linkedLists["b"], nodes)
                      = LinkedValues(call.pre.b, call.preHeap)


\* C11: after any sequence of create / append / prepend / insert / remove /
\* pop / clear / reverse / swap / sort calls on a linked list, with any
\* indices, count = 0 iff head = NULL iff tail = NULL; the next links from
\* head visit exactly count live nodes, the last of them is tail, and
\* tail->next = NULL.
C11_LinkedInvariant ==
    status = "running" =>
        LET chain == NodesOf(LA, nodes)
        IN  /\ (LA.size = 0) <=> (LA.head = NULL)
            /\ (LA.head = NULL) <=> (LA.tail = NULL)
            /\ Len(chain) = LA.size
            /\ LA.size > 0 => /\ chain[Len(chain)] = LA.tail
                              /\ nodes[LA.tail].next = NULL

\* an interior node was removed from a list of three
C11_Witness ==
    /\ status = "running"
    /\ call.op = "linked_list_remove" /\ call.index = 1
    /\ call.result = LINKED_LIST_SUCCESS
    /\ LA.size = 2

\* C12: no element storage is shared: in every reachable state no element
\* of a container is also an element of another container or an element the
\* caller was handed by get / pop; so releasing such an element leaves the
\* container's elements as they were.
C12_NoSharedStorage ==
    status = "running" =>
        \A i \in 0..(A.size - 1) : A.items[i] \notin held

\* C13: clone of a container whose slots below count are all populated
\* returns Success with a new container of the same count (an ArrayList:
\* and the same capacity) whose element at every index has the length and
\* the bytes of the source's element at that index; the source is as it was.
C13_Clone ==
    Cloned =>
        /\ status = "running"
        /\ call.result = LIST_SUCCESS
        /\ IF kind = "list"
           THEN LET out == lists["out"]
                IN  /\ out.size = call.pre.size
                    /\ out.capacity = call.pre.capacity
                    /\ \A i \in 0..(out.size - 1) :
                          /\ heap[out.items[i]].live
                          /\ heap[out.items[i]].size
                                = call.preHeap[call.pre.items[i]].size
                          /\ heap[out.items[i]].value
                                = call.preHeap[call.pre.items[i]].value
                    /\ lists["a"] = call.pre
                    /\ \A i \in 0..(call.pre.size - 1) :
                          heap[call.pre.items[i]]
                             = call.preHeap[call.pre.items[i]]
           ELSE LET out == NodesOf(linkedLists["out"], nodes)
                    src == Chain(call.preHeap, call.pre.head, MaxNodes + 1)
                IN  /\ linkedLists["out"].size = call.pre.size
                    /\ Len(out) = Len(src)
                    /\ \A i \in 1..Len(out) :
                          /\ nodes[out[i]].size = call.preHeap[src[i]].size
                          /\ nodes[out[i]].value = call.preHeap[src[i]].value
                    /\ linkedLists["a"] = call.pre
                    /\ NodesOf(linkedLists["a"], nodes) = src
                    /\ \A i \in 1..Len(src) :
                          nodes[src[i]] = call.preHeap[src[i]]

\* a list of two elements with different bytes was cloned
C13_Witness ==
    /\ Cloned /\ kind = "list" /\ status = "running"
    /\ lists["out"].size = 2
    /\ heap[lists["out"].items[0]].value # heap[lists["out"].items[1]].value

\* so was a linked list
C13_WitnessLinked ==
    /\ Cloned /\ kind = "linked_list" /\ status = "running"
    /\ linkedLists["out"].size = 2
    /\ nodes[linkedLists["out"].head].value
          # nodes[linkedLists["out"].tail].value

\* C14: after linked_list_clear on a list of n >= 1 nodes every node and
\* every element the list allocated has been released, head = tail = NULL
\* and count = 0.
C14_ClearReleases ==
    (status = "running" /\ call.op = "linked_list_clear" /\ call.size >= 1) =>
        /\ LiveNodes(nodes) = {}
        /\ LA.head = NULL /\ LA.tail = NULL /\ LA.size = 0

\* C20: linked_list_swap(i, j) with both indices below count returns Success;
\* afterwards the nodes from head are the old ones with those at positions i
\* and j exchanged and every other position as it was, count is unchanged,
\* head is the first node, tail the last one, and tail->next = NULL; for
\* i = j nothing changes.
C20_LinkedSwap ==
    LET old == call.log
        i == call.index
        j == call.index2
        new == NodesOf(LA, nodes)
    IN  (/\ call.op = "linked_list_swap"
         /\ i >= 0 /\ i < Len(old) /\ j >= 0 /\ j < Len(old)) =>
            /\ status = "running"
            /\ call.result = LINKED_LIST_SUCCESS
            /\ new = [k \in 1..Len(old) |->
                         IF k = i + 1 THEN old[j + 1]
                         ELSE IF k = j + 1 THEN old[i + 1] ELSE old[k]]
            /\ LA.size = Len(old)
            /\ LA.head = new[1]
            /\ LA.tail = new[Len(new)]
            /\ nodes[LA.tail].next = NULL

\* the first and the last node of a list of three were exchanged, the
\* larger index given first
C20_Witness ==
    /\ status = "running"
    /\ call.op = "linked_list_swap" /\ call.index = 2 /\ call.index2 = 0
    /\ Len(call.log) = 3
    /\ NodesOf(LA, nodes) = <<call.log[3], call.log[2], call.log[1]>>

\* two adjacent nodes were exchanged
C20_WitnessAdjacent ==
    /\ status = "running"
    /\ call.op = "linked_list_swap" /\ call.index = 1 /\ call.index2 = 2
    /\ Len(call.log) = 3
    /\ NodesOf(LA, nodes) = <<call.log[1], call.log[3], call.log[2]>>

\* C18: when list_insert is called with an index in [0, count] and the
\* allocation of the new element fails, it returns AllocationFailure and
\* count is not incremented.
C18_InsertAllocationFailure ==
    (/\ call.op = "list_insert"
     /\ call.index >= 0 /\ call.index <= call.pre.size
     /\ FreeAddrs(call.preHeap) = {}) =>
        /\ call.result = LIST_ALLOCATION_FAILURE
        /\ A.size = call.pre.size

C19_WitnessLinked ==
    /\ call.op = "linked_list_insert" /\ call.result = LINKED_LIST_SUCCESS
    /\ call.index = 2 /\ call.pre.size = 2
    /\ LA.size = 3 /\ nodes[LA.tail].value = <<2>>

\* C17: list_remove(index) and list_pop(index) with an index in
\* [0, capacity) never read through an absent slot: on an unpopulated slot
\* they return an error code and the process goes on.
C17_AbsentSlot ==
    (/\ call.op \in {"list_remove", "list_pop"}
     /\ call.index >= 0 /\ call.index < A.capacity
     /\ call.ub # NoUB => call.ub = "null_deref") =>
        /\ call.ub # "null_deref"
        /\ status = "running"
        /\ call.result \in {LIST_SUCCESS, LIST_INDEX_OUT_OF_RANGE_ERROR,
                             LIST_INVALID_PARAMS_ERROR}

\* C15: set(index, v, n) with an index below count and n >= 1 returns
\* Success without writing through an absent buffer, whatever element is at
\* that index; afterwards the element at index has length n and the bytes
\* of v, count and every other element are as they were, and get(index)
\* hands out an element with the length and the bytes of the stored one.
C15_SetGet ==
    /\ (/\ call.op = "list_set"
        /\ call.index >= 0 /\ call.index < call.pre.size) =>
          /\ status = "running"
          /\ call.result = LIST_SUCCESS
          /\ A.size = call.pre.size
          /\ heap[A.items[call.index]].size = call.size
          /\ heap[A.items[call.index]].value = call.value
          /\ \A i \in 0..(A.size - 1) :
                i # call.index =>
                   /\ A.items[i] = call.pre.items[i]
                   /\ heap[A.items[i]] = call.preHeap[A.items[i]]
    /\ (/\ call.op = "linked_list_set"
        /\ call.index >= 0 /\ call.index < call.pre.size) =>
          /\ status = "running"
          /\ call.result = LINKED_LIST_SUCCESS
          /\ LA = call.pre
          /\ LET chain == NodesOf(LA, nodes)
             IN  /\ chain = Chain(call.preHeap, call.pre.head, MaxNodes + 1)
                 /\ nodes[chain[call.index + 1]].size = call.size
                 /\ nodes[chain[call.index + 1]].value = call.value
                 /\ \A i \in 1..Len(chain) :
                       i # call.index + 1 =>
                          nodes[chain[i]] = call.preHeap[chain[i]]
    /\ (/\ call.op = "list_get"
        /\ call.index >= 0 /\ call.index < A.size) =>
          /\ status = "running"
          /\ call.result = LIST_SUCCESS
          /\ heap[call.out].size = heap[A.items[call.index]].size
          /\ heap[call.out].value = heap[A.items[call.index]].value
    /\ (/\ call.op = "linked_list_get"
        /\ call.index >= 0 /\ call.index < LA.size) =>
          /\ status = "running"
          /\ call.result = LINKED_LIST_SUCCESS
          /\ LET node == NodeAfter(nodes, LA.head, call.index)
             IN  /\ heap[call.out].size = nodes[node].size
                 /\ heap[call.out].value = nodes[node].value

\* C16: every element of either container, and every element handed out
\* by get / pop, has length 0 iff it has no data buffer, also after appends
\* with an absent value and a size that is not 0.
C16_ElementInvariant ==
    status = "running" =>
        /\ kind = "list" =>
              \A i \in 0..(A.size - 1) :
                 (heap[A.items[i]].size = 0)
                    <=> (heap[A.items[i]].value = NULLV)
        /\ kind = "linked_list" =>
              \A i \in 1..Len(NodesOf(LA, nodes)) :
                 LET node == NodesOf(LA, nodes)[i]
                 IN  (nodes[node].size = 0) <=> (nodes[node].value = NULLV)
        /\ \A a \in held : (heap[a].size = 0) <=> (heap[a].value = NULLV)

\* C21: find_last with a start index below count returns Success and the
\* greatest index at or after the start whose element equals the query
\* under the equality function, or ElementNotFound and -1 when there is
\* none; a match below the start index is never reported.
C21_FindLast ==
    /\ (/\ call.op = "list_find_last"
        /\ call.index >= 0 /\ call.index < A.size) =>
          LET matches == {k \in call.index..(A.size - 1) :
                            /\ heap[A.items[k]].size = call.size
                            /\ heap[A.items[k]].value = call.value}
          IN  /\ status = "running"
              /\ IF matches # {}
                 THEN /\ call.result = LIST_SUCCESS
                      /\ call.out = Max(matches)
                 ELSE /\ call.result = LIST_ELEMENT_NOT_FOUND_ERROR
                      /\ call.out = -1
    /\ (/\ call.op = "linked_list_find_last"
        /\ call.index >= 0 /\ call.index < LA.size) =>
          LET chain == NodesOf(LA, nodes)
              matches == {k \in call.index..(LA.size - 1) :
                            default_equals(nodes[chain[k + 1]].value,
                                           call.value, call.size) = 0}
          IN  /\ status = "running"
              /\ IF matches # {}
                 THEN /\ call.result = LINKED_LIST_SUCCESS
                      /\ call.out = Max(matches)
                 ELSE /\ call.result = LINKED_LIST_ELEMENT_NOT_FOUND_ERROR
                      /\ call.out = -1

\* C22: list_remove and list_pop check their index against the capacity:
\* they answer IndexOutOfRange exactly when the index is negative or not
\* below the capacity, and then leave the list, the heap and the caller's
\* elements as they were; an index from count up to capacity is never
\* answered with IndexOutOfRange.
C22_RemoveBounds ==
    [][call'.op \in {"list_remove", "list_pop"} =>
         LET l == lists[call'.handle]
             index == call'.index
         IN  /\ (index < 0 \/ index >= l.capacity) =>
                   /\ call'.result = LIST_INDEX_OUT_OF_RANGE_ERROR
                   /\ status' = "running"
                   /\ lists' = lists /\ heap' = heap /\ held' = held
             /\ (index >= 0 /\ index < l.capacity) =>
                   call'.result # LIST_INDEX_OUT_OF_RANGE_ERROR]_vars

\* list_remove has accepted an index between count and capacity
C22_Witness ==
    /\ call.op = "list_remove"
    /\ call.index > A.size /\ call.index < A.capacity
    /\ call.result = LIST_SUCCESS

\* C23: linked_list_get, linked_list_set, linked_list_remove and
\* linked_list_pop answer IndexOutOfRange for every index outside
\* [0, count), a negative one and any index on the empty list included, and
\* then leave head, tail, count, every node and every element as they were;
\* for an index inside [0, count) they do not answer IndexOutOfRange.
C23_LinkedBounds ==
    [][call'.op \in {"linked_list_get", "linked_list_set",
                     "linked_list_remove", "linked_list_pop"} =>
         LET ll == linkedLists[call'.handle]
             index == call'.index
         IN  /\ (index < 0 \/ index >= ll.size) =>
                   /\ call'.result = LINKED_LIST_INDEX_OUT_OF_RANGE_ERROR
                   /\ status' = "running"
                   /\ linkedLists' = linkedLists /\ nodes' = nodes
                   /\ heap' = heap /\ held' = held
             /\ (index >= 0 /\ index < ll.size) =>
                   call'.result # LINKED_LIST_INDEX_OUT_OF_RANGE_ERROR]_vars

\* linked_list_remove has refused a negative index on a list that is not
\* empty
C23_Witness ==
    /\ call.op = "linked_list_remove"
    /\ call.index < 0 /\ LA.size > 0
    /\ call.result = LINKED_LIST_INDEX_OUT_OF_RANGE_ERROR

\* C24: list_create with a capacity below 1 yields capacity 8 and count 0
\* (the capacity asked for otherwise); list_append doubles the capacity
\* exactly when count equals capacity before the call and leaves it alone
\* otherwise; on Success the elements keep their indices and contents, the
\* new element is at index old count and count has grown by one.
C24_AppendGrowth ==
    /\ [](call.op = "list_create" =>
            /\ A.size = 0
            /\ A.capacity = IF call.index < 1 THEN 8 ELSE call.index)
    /\ [][call'.op = "list_append" =>
            LET l == lists["a"]
                grown == lists'["a"]
            IN  /\ status' = "running"
                /\ grown.capacity = IF l.size = l.capacity
                                    THEN 2 * l.capacity ELSE l.capacity
                /\ call'.result = LIST_SUCCESS =>
                      /\ grown.size = l.size + 1
                      /\ \A i \in 0..(l.size - 1) :
                            /\ grown.items[i] = l.items[i]
                            /\ heap'[l.items[i]] = heap[l.items[i]]
                      /\ ~heap[grown.items[l.size]].live
                      /\ heap'[grown.items[l.size]] =
                            [size |-> call'.size, value |-> call'.value,
                             live |-> TRUE]]_vars

\* three appends to a list of capacity 2 at most: count 3, capacity 4
C24_Witness ==
    /\ call.op = "list_append" /\ call.result = LIST_SUCCESS
    /\ A.size = 3 /\ A.capacity = 4
    /\ ListValues(A, heap) = <<<<1>>, <<2>>, call.value>>

\* every slot below count holds an element that has not been released
Populated(l, h) ==
    \A i \in 0..(l.size - 1) : l.items[i] \in Addr /\ h[l.items[i]].live

C26_SortDispatch ==
    [][(call'.op \in {"list_sort", "linked_list_sort"}) =>
         LET count == IF kind = "list" THEN A.size ELSE LA.size
             f == IF kind = "list" THEN A.sortingFunction
                  ELSE LA.sortingFunction
         IN  /\ status' = "running"
             /\ IF count \in {0, 1}
                THEN /\ call'.log = <<>>
                     /\ call'.result = LIST_SUCCESS
                     /\ UNCHANGED <<lists, heap, linkedLists, nodes>>
                ELSE /\ call'.log = <<<<f, call'.flag>>>>
                     /\ call'.result = IF f = "default_sort" THEN LIST_SUCCESS
                                        ELSE CustomSortResult(f)]_vars

\* a sort of three elements has returned the code of the caller's function,
\* which is not Success
C26_Witness ==
    /\ call.op = "list_sort" /\ A.size = 3
    /\ A.sortingFunction = "custom_code"
    /\ call.result = CustomSortResult("custom_code")
    /\ call.result # LIST_SUCCESS

\* the same on a linked list
C26_WitnessLinked ==
    /\ call.op = "linked_list_sort" /\ LA.size = 3
    /\ LA.sortingFunction = "custom_refuses"
    /\ call.result = LINKED_LIST_INVALID_PARAMS_ERROR

\* C27: partition(list, low, high, ascending) on a range low < high of the
\* list returns p with low <= p <= high; when ascending every element of
\* [low, p - 1] compares <= the element at p and every element of
\* [p + 1, high] compares >= it, the other way round when descending; the
\* range holds the elements it held before and the rest of the list is as
\* it was.
C27_Partition ==
    Returned("partition") =>
        LET low == call.index
            high == call.index2
            p == call.out
            range == low..high
            Cmp(k) == CompareElems(A, heap, A.items[k], A.items[p])
        IN  /\ p \in range
            /\ \A k \in low..(p - 1) :
                  IF call.flag THEN Cmp(k) <= 0 ELSE Cmp(k) >= 0
            /\ \A k \in (p + 1)..high :
                  IF call.flag THEN Cmp(k) >= 0 ELSE Cmp(k) <= 0
            /\ {A.items[k] : k \in range} = {call.pre.items[k] : k \in range}
            /\ \A k \in DOMAIN A.items \ range : A.items[k] = call.pre.items[k]

\* C28: for every value r the equality function returns, values outside
\* [-128, 127] included, the ascending merge takes the node of the first
\* half exactly when r <= 0 and that of the second half when r > 0; the
\* descending merge takes the node of the first half exactly when r >= 0.
C28_MergeDecision ==
    Returned("merge") =>
        LET r == call.index
            first == call.index2 = 1
        IN  IF call.flag THEN first <=> (r <= 0) ELSE first <=> (r >= 0)

\* the sequence s with x put in after its first i entries
InsertAt(s, i, x) == SubSeq(s, 1, i) \o <<x>> \o SubSeq(s, i + 1, Len(s))
ListPointers(l) == [j \in 1..l.size |-> l.items[j - 1]]
NoRepeat(s) == Cardinality({s[j] : j \in 1..Len(s)}) = Len(s)

C29_Middle ==
    /\ call.op = "linked_list_insert" /\ call.result = LINKED_LIST_SUCCESS
    /\ call.index = 1
    /\ LinkedValues(LA, nodes) = <<<<1>>, <<0>>, <<2>>>>
    /\ call.value = <<0>>

\* the sequence s without its entry i + 1
RemoveAt(s, i) == SubSeq(s, 1, i) \o SubSeq(s, i + 2, Len(s))

\* C30: linked_list_remove and linked_list_pop at an index i in [0, k) of a
\* list holding e0..e(k-1) return Success and leave e0..e(i-1),
\* e(i+1)..e(k-1) and count k - 1, head the first and tail the last node
\* left (both NULL when k = 1); the node removed and its element are
\* released, once, the others are as they were; pop hands out a fresh
\* element with the length and the bytes of e(i).
C30_LinkedRemove ==
    [][(/\ call'.op \in {"linked_list_remove", "linked_list_pop"}
        /\ call'.index >= 0 /\ call'.index < LA.size) =>
          LET i == call'.index
              before == NodesOf(LA, nodes)
              after == NodesOf(LA', nodes')
              q == before[i + 1]
          IN  /\ call'.result = LINKED_LIST_SUCCESS
              /\ status' = "running"
              /\ Len(before) = LA.size
              /\ after = RemoveAt(before, i)
              /\ LA'.size = LA.size - 1
              /\ IF after = <<>>
                 THEN LA'.head = NULL /\ LA'.tail = NULL
                 ELSE /\ LA'.head = after[1]
                      /\ LA'.tail = after[Len(after)]
                      /\ nodes'[LA'.tail].next = NULL
              /\ nodes[q].live /\ nodes[q].elive
              /\ ~nodes'[q].live /\ ~nodes'[q].elive
              /\ \A j \in 1..Len(after) :
                    [nodes'[after[j]] EXCEPT !.next = NULL] =
                    [nodes[after[j]] EXCEPT !.next = NULL]
              /\ IF call'.op = "linked_list_pop"
                 THEN /\ call'.out \in Addr
                      /\ ~heap[call'.out].live
                      /\ heap' = [heap EXCEPT ![call'.out] =
                                      [size |-> nodes[q].size,
                                       value |-> nodes[q].value,
                                       live |-> TRUE]]
                 ELSE heap' = heap]_vars

\* a pop from the middle of three elements, the one handed out differing
\* from the two that are left
C30_Witness ==
    /\ call.op = "linked_list_pop" /\ call.result = LINKED_LIST_SUCCESS
    /\ call.index = 1
    /\ LinkedValues(LA, nodes) = <<<<0>>, <<0>>>>
    /\ call.out \in Addr /\ heap[call.out].value = <<1>>

\* the only element of a list has been removed
C30_WitnessSingle ==
    /\ call.op = "linked_list_remove" /\ call.result = LINKED_LIST_SUCCESS
    /\ call.index = 0 /\ LA.size = 0

Reversed(s) == [j \in 1..Len(s) |-> s[Len(s) + 1 - j]]

\* C31: reverse on a container holding e0..e(k-1), k >= 0, returns Success
\* and leaves e(k-1)..e0, the same records with the same contents, and the
\* same count; on a linked list head is the old tail, tail the old head and
\* tail.next is NULL; a second reverse restores the sequence, head and
\* tail.
C31_Reverse ==
    [][/\ call'.op = "list_reverse" =>
             /\ call'.result = LIST_SUCCESS
             /\ status' = "running"
             /\ A'.size = A.size /\ A'.capacity = A.capacity
             /\ ListPointers(A') = Reversed(ListPointers(A))
             /\ \A i \in A.size..(A.capacity - 1) : A'.items[i] = A.items[i]
             /\ heap' = heap
             /\ list_reverse(A', heap').l = A
       /\ call'.op = "linked_list_reverse" =>
             /\ call'.result = LINKED_LIST_SUCCESS
             /\ status' = "running"
             /\ LA'.size = LA.size
             /\ Len(NodesOf(LA, nodes)) = LA.size
             /\ NodesOf(LA', nodes') = Reversed(NodesOf(LA, nodes))
             /\ LA'.head = LA.tail /\ LA'.tail = LA.head
             /\ LA'.tail # NULL => nodes'[LA'.tail].next = NULL
             /\ \A q \in NodeAddr :
                   [nodes'[q] EXCEPT !.next = NULL] =
                   [nodes[q] EXCEPT !.next = NULL]
             /\ linked_list_reverse(LA', nodes').ll = LA
             /\ linked_list_reverse(LA', nodes').nd = nodes]_vars

\* three elements have been reversed: the list reads 2, 1, 0
C31_Witness ==
    /\ call.op = "list_reverse" /\ call.result = LIST_SUCCESS
    /\ ListValues(A, heap) = <<<<2>>, <<1>>, <<0>>>>
    /\ A.items[0] > A.items[2]

\* the same on a linked list
C31_WitnessLinked ==
    /\ call.op = "linked_list_reverse"
    /\ LinkedValues(LA, nodes) = <<<<2>>, <<1>>, <<0>>>>
    /\ LA.head > LA.tail

\* the slots from index on whose element has the size and the bytes of the
\* last query
Matches(index) ==
    {k \in index..(A.size - 1) : /\ heap[A.items[k]].size = call.size
                                 /\ heap[A.items[k]].value = call.value}

SeqRange(q) == {q[j] : j \in 1..Len(q)}

\* C32: list_includes, list_find_first and list_find_last never call the
\* equality function on a stored element whose size differs from the query
\* size and never report it; they skip it and go on, so that a match behind
\* it is found: the answer is the first (the last for list_find_last)
\* element of the query's size and bytes, ElementNotFound when there is
\* none, and never an error because of a skipped element.
C32_SizeMismatchSkipped ==
    /\ call.op \in {"list_includes", "list_find_first", "list_find_last"} =>
          /\ status = "running"
          /\ \A k \in SeqRange(call.log) :
                k \in 0..(A.size - 1) /\ heap[A.items[k]].size = call.size
    /\ call.op = "list_includes" =>
          /\ call.result = IF Matches(0) # {} THEN LIST_SUCCESS
                           ELSE LIST_ELEMENT_NOT_FOUND_ERROR
          /\ Matches(0) # {} => call.out = Min(Matches(0))
    /\ (/\ call.op = "list_find_first"
        /\ call.index >= 0 /\ call.index < A.size) =>
          IF Matches(call.index) # {}
          THEN /\ call.result = LIST_SUCCESS
               /\ call.out = Min(Matches(call.index))
          ELSE /\ call.result = LIST_ELEMENT_NOT_FOUND_ERROR
               /\ call.out = -1
    /\ (/\ call.op = "list_find_last"
        /\ call.index >= 0 /\ call.index < A.size) =>
          IF Matches(call.index) # {}
          THEN /\ call.result = LIST_SUCCESS
               /\ call.out = Max(Matches(call.index))
          ELSE /\ call.result = LIST_ELEMENT_NOT_FOUND_ERROR
               /\ call.out = -1

\* a one-byte query has passed over a two-byte element that begins with
\* the same byte and has found the one-byte element behind it
C32_Witness ==
    /\ call.op = "list_find_first" /\ call.index = 0
    /\ call.value = <<0>>
    /\ ListValues(A, heap) = <<<<0, 1>>, <<1>>, <<0>>>>
    /\ call.result = LIST_SUCCESS /\ call.out = 2
    /\ call.log = <<1, 2>>

\* C33: a prepend that returns AllocationFailure because the new element
\* or node cannot be allocated leaves the count and the sequence at
\* [0, count) as they were, and no element is in two slots of [0, count).
C33_PrependAtomic ==
    [][/\ (/\ call'.op = "list_prepend"
            /\ call'.result = LIST_ALLOCATION_FAILURE) =>
             /\ A'.size = A.size
             /\ ListPointers(A') = ListPointers(A)
             /\ NoRepeat(ListPointers(A'))
             /\ heap' = heap
       /\ (/\ call'.op = "linked_list_prepend"
            /\ call'.result = LINKED_LIST_ALLOCATION_FAILURE) =>
             /\ LA' = LA
             /\ nodes' = nodes
             /\ NoRepeat(NodesOf(LA', nodes'))]_vars

\* the linked half of C33 alone
C33_LinkedPrependAtomic ==
    [][(/\ call'.op = "linked_list_prepend"
        /\ call'.result = LINKED_LIST_ALLOCATION_FAILURE) =>
          /\ LA' = LA
          /\ nodes' = nodes
          /\ NoRepeat(NodesOf(LA', nodes'))]_vars

\* a prepend on a linked list has failed for want of memory
C33_LinkedFailure ==
    /\ call.op = "linked_list_prepend"
    /\ call.result = LINKED_LIST_ALLOCATION_FAILURE
    /\ LA.size = MaxNodes

\* C34: every container returned by create, clone or join has its
\* equality function and its sorting function set to a defined function,
\* so that a sort of a clone or of a joined container never calls through
\* an unset pointer.
C34_FunctionsSet ==
    /\ \A hd \in ListHandles :
          /\ lists[hd] # NoList =>
                /\ lists[hd].equalityFunction = "default_equals"
                /\ lists[hd].sortingFunction
                      \in {"default_sort"} \cup CustomSortingFunctions
          /\ linkedLists[hd] # NoLinkedList =>
                /\ linkedLists[hd].equalityFunction = "default_equals"
                /\ linkedLists[hd].sortingFunction
                      \in {"default_sort"} \cup CustomSortingFunctions
    /\ call.op \in {"list_sort", "linked_list_sort"} => call.ub = NoUB

\* the part of C34 about create and list_join
C34_CreateAndListJoin ==
    \A hd \in ListHandles :
       /\ (lists[hd] # NoList /\ (hd # "out" \/ call.op = "list_join")) =>
             /\ lists[hd].equalityFunction = "default_equals"
             /\ lists[hd].sortingFunction = "default_sort"
       /\ (linkedLists[hd] # NoLinkedList /\ hd # "out") =>
             /\ linkedLists[hd].equalityFunction = "default_equals"
             /\ linkedLists[hd].sortingFunction = "default_sort"

\* a sort of a clone has called through the pointer that was never set
C34_WildSort ==
    /\ call.op = "list_sort" /\ call.handle = "out"
    /\ call.ub = "wild_deref"

\* C35: the default sort only permutes. After it the count is what it was
\* and the container holds the element records it held, each once, with
\* the contents they had; nothing is allocated or freed; on a linked list
\* head is the first and tail the last node of the chain, and tail.next is
\* NULL.
C35_SortPermutes ==
    [][/\ (/\ call'.op = "list_sort"
            /\ A.sortingFunction = "default_sort") =>
             /\ call'.result = LIST_SUCCESS
             /\ status' = "running"
             /\ A'.size = A.size /\ A'.capacity = A.capacity
             /\ SeqRange(ListPointers(A')) = SeqRange(ListPointers(A))
             /\ NoRepeat(ListPointers(A'))
             /\ \A i \in A.size..(A.capacity - 1) : A'.items[i] = A.items[i]
             /\ heap' = heap
       /\ (/\ call'.op = "linked_list_sort"
            /\ LA.sortingFunction = "default_sort") =>
             LET chain == NodesOf(LA', nodes')
             IN  /\ call'.result = LINKED_LIST_SUCCESS
                 /\ status' = "running"
                 /\ LA'.size = LA.size
                 /\ Len(chain) = LA.size
                 /\ SeqRange(chain) = SeqRange(NodesOf(LA, nodes))
                 /\ NoRepeat(chain)
                 /\ LA.size = 0 => LA'.head = NULL /\ LA'.tail = NULL
                 /\ LA.size > 0 =>
                       /\ LA'.head = chain[1]
                       /\ LA'.tail = chain[Len(chain)]
                       /\ nodes'[LA'.tail].next = NULL
                 /\ \A q \in NodeAddr :
                       [nodes'[q] EXCEPT !.next = NULL] =
                       [nodes[q] EXCEPT !.next = NULL]]_vars

\* the default sort has moved the last node of three to the front
C35_Witness ==
    /\ call.op = "linked_list_sort"
    /\ LA.sortingFunction = "default_sort"
    /\ call.result = LINKED_LIST_SUCCESS
    /\ LinkedValues(LA, nodes) = <<<<0>>, <<1>>, <<2>>>>
    /\ LA.head = 3 /\ LA.tail # 3

\* the same on an ArrayList
C35_WitnessList ==
    /\ call.op = "list_sort"
    /\ A.sortingFunction = "default_sort"
    /\ ListValues(A, heap) = <<<<0>>, <<1>>, <<2>>>>
    /\ A.items[0] > A.items[1]

\* C36: list_element_free and linked_list_element_free read and write the
\* fields of the element record only before they release it, and after the
\* release only set the caller's handle to NULL: releasing an element the
\* caller holds does nothing undefined. On a handle that is NULL already
\* they return InvalidParams and release nothing.
C36_ElementFreeOrder ==
    [][(call'.op \in {"list_element_free", "linked_list_element_free"}) =>
          IF call'.index = NULL
          THEN /\ call'.result = LIST_INVALID_PARAMS_ERROR
               /\ heap' = heap /\ held' = held
               /\ status' = "running"
          ELSE /\ heap[call'.index].live
               /\ call'.result = LIST_SUCCESS
               /\ ~heap'[call'.index].live
               /\ held' = held \ {call'.index}
               /\ call'.ub = NoUB]_vars

\* the same for linked_list_element_free alone
C36_LinkedElementFreeOrder ==
    [][(call'.op = "linked_list_element_free") =>
          IF call'.index = NULL
          THEN /\ call'.result = LINKED_LIST_INVALID_PARAMS_ERROR
               /\ heap' = heap /\ held' = held
               /\ status' = "running"
          ELSE /\ heap[call'.index].live
               /\ call'.result = LINKED_LIST_SUCCESS
               /\ ~heap'[call'.index].live
               /\ held' = held \ {call'.index}
               /\ call'.ub = NoUB
               /\ status' = "running"]_vars

\* list_element_free on a NULL handle
C36_NoneHandle ==
    [][(call'.op = "list_element_free" /\ call'.index = NULL) =>
          /\ call'.result = LIST_INVALID_PARAMS_ERROR
          /\ heap' = heap /\ held' = held
          /\ status' = "running"]_vars

ChainLength(nd, p) == Len(Chain(nd, p, MaxNodes + 1))

\* C37: the default sorts terminate. A default sort that was called, on a
\* container of any count n >= 0, with any of the equality functions,
\* returns, and returns Success; partition's pivot index is within
\* [low, high] and the two ranges quicksort goes on with are strictly
\* smaller than [low, high]; merge_split on a chain of two or more nodes
\* yields two halves that are not empty and strictly shorter than the
\* chain; what the sort leaves is what quicksort or merge_sort as a whole
\* leaves.
C37_SortsTerminate ==
    /\ Sorting ~> Sorted
    /\ [][(/\ call.op = "quicksort" /\ call.log # <<>>
            /\ Head(call.log)[1] < Head(call.log)[2]) =>
             LET low == Head(call.log)[1]
                 high == Head(call.log)[2]
                 p == call'.out
             IN  /\ low <= p /\ p <= high
                 /\ call'.log[1] = <<low, p - 1>>
                 /\ call'.log[2] = <<p + 1, high>>
                 /\ \A k \in 1..2 :
                       call'.log[k][2] - call'.log[k][1] < high - low]_vars
    /\ [][(/\ call.op = "merge_sort" /\ call.log # <<>>
            /\ Head(call.log)[1] = "merge_sort"
            /\ ChainLength(nodes, Head(call.log)[2]) >= 2) =>
             LET n == ChainLength(nodes, Head(call.log)[2])
                 n1 == ChainLength(nodes', call'.log[1][2])
                 n2 == ChainLength(nodes', call'.log[2][2])
             IN  /\ n1 >= 1 /\ n2 >= 1
                 /\ n1 < n /\ n2 < n
                 /\ n1 + n2 = n]_vars
    /\ [][(call.op = "quicksort" /\ call'.op = "default_sort") =>
             A' = quicksort(call.pre, heap, 0, call.pre.size - 1,
                            call.flag)]_vars
    /\ [][(call.op = "merge_sort" /\ call'.op = "default_sort") =>
             /\ LA' = linked_default_sort(LA, call.preHeap, call.flag).ll
             /\ nodes' = linked_default_sort(LA, call.preHeap,
                                             call.flag).nd]_vars

\* a quicksort of three elements has returned: partition ran, and the
\* ranges it left ran
C37_Witness ==
    /\ Sorted /\ kind = "list"
    /\ A.size = 3 /\ call.size >= 3
    /\ A.equalityFunction = "custom_greater"

\* a merge sort of three nodes has returned
C37_WitnessLinked ==
    /\ Sorted /\ kind = "linked_list"
    /\ LA.size = 3 /\ call.size >= 7

====
